---- MODULE Spec2Model ----
(***************************************************************************)
(* api-client-generator: the specification normalizer (OpenAPIParser), the *)
(* generation context builder (CodeGeneratorEngine.buildContext) and the   *)
(* TypeScript generator's renderers, as a state machine over one document. *)
(*                                                                         *)
(* Strings of the program are sequences of one-character strings, so that  *)
(* split, charAt, toUpperCase, startsWith and concatenation are computed.  *)
(* A value that may be undefined is a sequence of length at most one:      *)
(* None is undefined, Some(v) is the value v.                              *)
(***************************************************************************)
EXTENDS Integers, Sequences, FiniteSets, TLC

(* ---------------------------------------------------------------------- *)
(* Bounds of the model                                                     *)
(* ---------------------------------------------------------------------- *)
MaxServers == 2
MaxPaths == 2
MaxTags == 2
MaxResponses == 2
MaxSchemas == 2

(* ---------------------------------------------------------------------- *)
(* JavaScript values                                                       *)
(* ---------------------------------------------------------------------- *)
None == <<>>
Some(v) == <<v>>
IsSome(o) == Len(o) > 0
Get(o) == o[1]

\* x || d for a string x: the empty string and undefined are falsy
OrElseStr(o, d) == IF IsSome(o) /\ Get(o) # <<>> THEN Get(o) ELSE d
\* x || d for an array or object x: only undefined is falsy
OrElseObj(o, d) == IF IsSome(o) THEN Get(o) ELSE d
\* x || false for a boolean x
OrElseBool(o) == IsSome(o) /\ Get(o)
\* truthiness of an optional string
TruthyStr(o) == IsSome(o) /\ Get(o) # <<>>

LowerChars == <<"a","b","c","d","e","f","g","h","i","j","k","l","m",
                "n","o","p","q","r","s","t","u","v","w","x","y","z">>
UpperChars == <<"A","B","C","D","E","F","G","H","I","J","K","L","M",
                "N","O","P","Q","R","S","T","U","V","W","X","Y","Z">>
Digits == {"0","1","2","3","4","5","6","7","8","9"}

IndexOf(c, chars) ==
  IF \E i \in 1..Len(chars) : chars[i] = c
  THEN CHOOSE i \in 1..Len(chars) : chars[i] = c
  ELSE 0

toUpperChar(c) == IF IndexOf(c, LowerChars) > 0 THEN UpperChars[IndexOf(c, LowerChars)] ELSE c
toLowerChar(c) == IF IndexOf(c, UpperChars) > 0 THEN LowerChars[IndexOf(c, UpperChars)] ELSE c
toUpperCase(s) == [i \in 1..Len(s) |-> toUpperChar(s[i])]
toLowerCase(s) == [i \in 1..Len(s) |-> toLowerChar(s[i])]
IsAlnum(c) == IndexOf(c, LowerChars) > 0 \/ IndexOf(c, UpperChars) > 0 \/ c \in Digits

\* s.slice(k) with k counted from 0
slice(s, k) == SubSeq(s, k + 1, Len(s))
\* s.startsWith(p)
startsWith(s, p) == Len(s) >= Len(p) /\ SubSeq(s, 1, Len(p)) = p

RECURSIVE SplitAcc(_, _, _, _, _)
SplitAcc(s, sep, i, cur, acc) ==
  IF i > Len(s) THEN Append(acc, cur)
  ELSE IF s[i] = sep THEN SplitAcc(s, sep, i + 1, <<>>, Append(acc, cur))
  ELSE SplitAcc(s, sep, i + 1, Append(cur, s[i]), acc)
\* s.split(sep) for a one-character separator
split(s, sep) == SplitAcc(s, sep, 1, <<>>, <<>>)
\* parts.filter(Boolean)
filterBoolean(parts) == SelectSeq(parts, LAMBDA p : p # <<>>)

RECURSIVE Flat(_)
\* arrays.flat()
Flat(ss) == IF ss = <<>> THEN <<>> ELSE Head(ss) \o Flat(Tail(ss))

\* arr.includes(x)
includes(s, x) == \E i \in 1..Len(s) : s[i] = x
\* obj[key] on an object given by its entries
Lookup(entries, key) ==
  IF \E i \in 1..Len(entries) : entries[i].key = key
  THEN Some(entries[CHOOSE i \in 1..Len(entries) : entries[i].key = key].value)
  ELSE None
\* Object.keys(obj)
Keys(entries) == [i \in 1..Len(entries) |-> entries[i].key]

(* ---------------------------------------------------------------------- *)
(* String literals of the program                                          *)
(* ---------------------------------------------------------------------- *)
s_get == <<"g","e","t">>
s_post == <<"p","o","s","t">>
s_put == <<"p","u","t">>
s_delete == <<"d","e","l","e","t","e">>
s_patch == <<"p","a","t","c","h">>
s_options == <<"o","p","t","i","o","n","s">>
s_head == <<"h","e","a","d">>
s_trace == <<"t","r","a","c","e">>
s_default == <<"d","e","f","a","u","l","t">>
s_query == <<"q","u","e","r","y">>
s_path == <<"p","a","t","h">>
s_any == <<"a","n","y">>
s_array == <<"a","r","r","a","y">>
s_object == <<"o","b","j","e","c","t">>
s_string == <<"s","t","r","i","n","g">>
s_integer == <<"i","n","t","e","g","e","r">>
s_https == <<"h","t","t","p","s">>
s_http == <<"h","t","t","p">>
s_API == <<"A","P","I">>
s_1_0_0 == <<"1",".","0",".","0">>
s_placeholder == <<"h","t","t","p","s",":","/","/","a","p","i",".","e","x","a","m","p","l","e",".","c","o","m">>
s_schemeSep == <<":","/","/">>
s_brackets == <<"[","]">>
s_anyArray == <<"a","n","y","[","]">>

(* ---------------------------------------------------------------------- *)
(* Strings the input documents are built from                              *)
(* ---------------------------------------------------------------------- *)
p_pets == <<"/","p","e","t","s">>
p_petsId == <<"/","p","e","t","s","/","{","i","d","}">>
p_root == <<"/">>
p_petStore == <<"/","p","e","t","-","s","t","o","r","e">>
r_Pet == <<"#","/","c","o","m","p","o","n","e","n","t","s","/","s","c","h","e","m","a","s","/","P","e","t">>
r_Order == <<"#","/","c","o","m","p","o","n","e","n","t","s","/","s","c","h","e","m","a","s","/","O","r","d","e","r">>
n_Pet == <<"P","e","t">>
n_Order == <<"O","r","d","e","r">>
n_id == <<"i","d">>
n_name == <<"n","a","m","e">>
n_ghost == <<"g","h","o","s","t">>
n_q == <<"q">>
t_pets == <<"p","e","t","s">>
t_store == <<"s","t","o","r","e">>
c_200 == <<"2","0","0">>
c_201 == <<"2","0","1">>
c_404 == <<"4","0","4">>
h_host == <<"a","p","i",".","i","o">>
b_v1 == <<"/","v","1">>
u_a == <<"h","t","t","p","s",":","/","/","a",".","i","o">>
u_b == <<"h","t","t","p",":","/","/","b",".","i","o","/","v","2">>
v_300 == <<"3",".","0",".","0">>
v_20 == <<"2",".","0">>
i_title == <<"P","e","t","s","t","o","r","e">>
i_version == <<"2",".","1">>
i_desc == <<"A"," ","s","t","o","r","e">>
o_listPets == <<"l","i","s","t","P","e","t","s">>
m_json == <<"a","p","p","l","i","c","a","t","i","o","n","/","j","s","o","n">>
m_xml == <<"a","p","p","l","i","c","a","t","i","o","n","/","x","m","l">>
k_apiKey == <<"a","p","i","K","e","y">>
k_auth == <<"a","u","t","h">>

(* ---------------------------------------------------------------------- *)
(* The raw document (the value JSON.parse returns)                         *)
(*   an object whose keys the code enumerates is a sequence of entries     *)
(*   [key, value] in Object.entries order                                  *)
(* ---------------------------------------------------------------------- *)
\* a schema node: {$ref, type, items, properties, required, nullable, description}
SchemaNode(ref, type, items) ==
  [ref |-> ref, type |-> type, items |-> items, properties |-> None,
   required |-> None, nullable |-> None, description |-> None]
RefSchema(r) == SchemaNode(Some(r), None, None)
TypeSchema(t) == SchemaNode(None, Some(t), None)
ArraySchema(items) == SchemaNode(None, Some(s_array), Some(items))
EmptySchema == SchemaNode(None, None, None)
ObjectSchema(props, req) ==
  [ref |-> None, type |-> Some(s_object), items |-> None, properties |-> Some(props),
   required |-> req, nullable |-> None, description |-> None]
Entry(k, v) == [key |-> k, value |-> v]

\* an operation object with every field absent
BareOperation ==
  [operationId |-> None, summary |-> None, description |-> None, tags |-> None,
   parameters |-> None, requestBody |-> None, responses |-> None, security |-> None]
\* a document with a version marker and every other field absent
BareDocument ==
  [openapi |-> Some(v_300), swagger |-> None, info |-> None, servers |-> None,
   host |-> None, schemes |-> None, basePath |-> None, paths |-> None,
   components |-> None]

(* ---------------------------------------------------------------------- *)
(* OpenAPIParser                                                           *)
(* ---------------------------------------------------------------------- *)

\* a constructor that demands both markers (|| written for &&)
MissingVersionMarker_Either(parsed) ==
  ~TruthyStr(parsed.openapi) \/ ~TruthyStr(parsed.swagger)
\* a constructor that accepts every document (the version test left out)
MissingVersionMarker_Never(parsed) == FALSE
\* the constructor's test: !parsed.openapi && !parsed.swagger
MissingVersionMarker(parsed) == ~TruthyStr(parsed.openapi) /\ ~TruthyStr(parsed.swagger)


\* a base-URL resolution that tries the legacy host before the servers
getBaseUrl_HostFirst(spec) ==
  IF TruthyStr(spec.host)
  THEN LET firstScheme == IF IsSome(spec.schemes) /\ Len(Get(spec.schemes)) > 0
                          THEN Some(Get(spec.schemes)[1]) ELSE None
       IN  Some(OrElseStr(firstScheme, s_https) \o s_schemeSep \o Get(spec.host)
                \o OrElseStr(spec.basePath, <<>>))
  ELSE IF IsSome(spec.servers) /\ Len(Get(spec.servers)) > 0
  THEN Get(spec.servers)[1].url
  ELSE Some(s_placeholder)
getBaseUrl(spec) ==
  IF IsSome(spec.servers) /\ Len(Get(spec.servers)) > 0
  THEN Get(spec.servers)[1].url
  ELSE IF TruthyStr(spec.host)
  THEN LET firstScheme == IF IsSome(spec.schemes) /\ Len(Get(spec.schemes)) > 0
                          THEN Some(Get(spec.schemes)[1]) ELSE None
           scheme == OrElseStr(firstScheme, s_https)
           basePath == OrElseStr(spec.basePath, <<>>)
       IN  Some(scheme \o s_schemeSep \o Get(spec.host) \o basePath)
  ELSE Some(s_placeholder)

\* a resolver that does not descend into the items of an array
getSchemaType_NoNesting(schema) ==
  IF ~IsSome(schema) THEN s_any
  ELSE IF TruthyStr(Get(schema).ref)
  THEN LET refParts == split(Get(Get(schema).ref), "/")
       IN  refParts[Len(refParts)]
  ELSE IF Get(schema).type = Some(s_array) /\ IsSome(Get(schema).items)
  THEN s_anyArray
  ELSE OrElseStr(Get(schema).type, s_any)
RECURSIVE getSchemaType(_)
getSchemaType(schema) ==
  IF ~IsSome(schema) THEN s_any
  ELSE IF TruthyStr(Get(schema).ref)
  THEN LET refParts == split(Get(Get(schema).ref), "/")
       IN  refParts[Len(refParts)]
  ELSE IF Get(schema).type = Some(s_array) /\ IsSome(Get(schema).items)
  THEN getSchemaType(Get(schema).items) \o s_brackets
  ELSE OrElseStr(Get(schema).type, s_any)


\* an identifier synthesis that takes the last path segment for the resource
generateOperationId_LastSegment(method, path) ==
  LET parts == filterBoolean(split(path, "/"))
      resource == IF Len(parts) > 0 THEN parts[Len(parts)] ELSE s_default
  IN  toLowerCase(method) \o toUpperCase(SubSeq(resource, 1, 1)) \o slice(resource, 1)
generateOperationId(method, path) ==
  LET parts == filterBoolean(split(path, "/"))
      resource == IF Len(parts) > 0 THEN parts[1] ELSE s_default
  IN  toLowerCase(method) \o toUpperCase(SubSeq(resource, 1, 1)) \o slice(resource, 1)


\* a parameter projection whose location defaults to 'path'
parseParameter_PathDefault(param) ==
  [name |-> param.name,
   in |-> OrElseStr(param.in, s_path),
   required |-> OrElseBool(param.required),
   type |-> getSchemaType(param.schema),
   description |-> param.description,
   schema |-> param.schema]
parseParameter(param) ==
  [name |-> param.name,
   in |-> OrElseStr(param.in, s_query),
   required |-> OrElseBool(param.required),
   type |-> getSchemaType(param.schema),
   description |-> param.description,
   schema |-> param.schema]

parseParameters(parameters) ==
  IF ~IsSome(parameters) THEN <<>>
  ELSE [x \in 1..Len(Get(parameters)) |-> parseParameter(Get(parameters)[x])]

\* a projection that takes the first content type that has a schema
firstContent_FirstWithSchema(content) ==
  IF \E i \in 1..Len(content) : IsSome(content[i].value.schema)
  THEN content[CHOOSE i \in 1..Len(content) :
                 /\ IsSome(content[i].value.schema)
                 /\ \A j \in 1..(i - 1) : ~IsSome(content[j].value.schema)].value
  ELSE [schema |-> None, example |-> None]
\* content[contentTypes[0]]?.schema and ?.example
firstContent(content) ==
  IF Len(content) > 0 THEN content[1].value ELSE [schema |-> None, example |-> None]

parseRequestBody(requestBody) ==
  IF ~IsSome(requestBody) THEN None
  ELSE LET content == OrElseObj(Get(requestBody).content, <<>>)
           contentTypes == Keys(content)
       IN  Some([required |-> OrElseBool(Get(requestBody).required),
                 contentTypes |-> contentTypes,
                 schema |-> firstContent(content).schema,
                 example |-> firstContent(content).example])

parseResponse(entry) ==
  LET content == OrElseObj(entry.value.content, <<>>)
  IN  [statusCode |-> entry.key,
       description |-> OrElseStr(entry.value.description, <<>>),
       schema |-> firstContent(content).schema,
       example |-> firstContent(content).example]

parseResponses(responses) ==
  IF ~IsSome(responses) THEN <<>>
  ELSE [x \in 1..Len(Get(responses)) |-> parseResponse(Get(responses)[x])]

\* Object.keys(s || {}) of one security requirement
securityKeys(s) == OrElseObj(s, <<>>)


\* a tag projection without the 'default' fallback
tagsOf_NoDefault(operation) == OrElseObj(operation.tags, <<>>)
\* operation.tags || ['default']
tagsOf(operation) == OrElseObj(operation.tags, <<s_default>>)

parseEndpoint(path, method, operation) ==
  [path |-> path,
   method |-> method,
   operationId |-> IF TruthyStr(operation.operationId)
                   THEN Get(operation.operationId)
                   ELSE generateOperationId(method, path),
   summary |-> operation.summary,
   description |-> operation.description,
   tags |-> tagsOf(operation),
   parameters |-> parseParameters(operation.parameters),
   requestBody |-> parseRequestBody(operation.requestBody),
   responses |-> parseResponses(operation.responses),
   security |-> IF IsSome(operation.security)
                THEN Flat([x \in 1..Len(Get(operation.security)) |-> securityKeys(Get(operation.security)[x])])
                ELSE <<>>]


\* a verb list that forgets 'head'
methods_NoHead == <<s_get, s_post, s_put, s_delete, s_patch, s_options>>
\* a verb list that tries 'head' first
methods_HeadFirst == <<s_head, s_get, s_post, s_put, s_delete, s_patch, s_options>>
\* the verbs parseEndpoints tries on every path item, in this order
methods == <<s_get, s_post, s_put, s_delete, s_patch, s_options, s_head>>

RECURSIVE parsePathItem(_, _, _)
\* the inner loop of parseEndpoints: the verbs from index m on
parsePathItem(pathKey, pathItem, m) ==
  IF m > Len(methods) THEN <<>>
  ELSE LET operation == Lookup(pathItem, methods[m])
       IN  (IF ~IsSome(operation) THEN <<>>
            ELSE <<parseEndpoint(pathKey, toUpperCase(methods[m]), Get(operation))>>)
           \o parsePathItem(pathKey, pathItem, m + 1)

RECURSIVE parsePathsFrom(_, _)
\* the outer loop of parseEndpoints: the path entries from index i on
parsePathsFrom(paths, i) ==
  IF i > Len(paths) THEN <<>>
  ELSE parsePathItem(paths[i].key, paths[i].value, 1) \o parsePathsFrom(paths, i + 1)

parseEndpoints(spec) ==
  IF ~IsSome(spec.paths) THEN <<>>
  ELSE parsePathsFrom(Get(spec.paths), 1)

parseProperty(name, schema) ==
  [name |-> name,
   type |-> getSchemaType(Some(schema)),
   description |-> schema.description,
   required |-> FALSE,
   items |-> schema.items,
   ref |-> schema.ref,
   nullable |-> schema.nullable]

parsePropertyEntry(e) == parseProperty(e.key, e.value)

parseSchema(name, schema) ==
  [name |-> name,
   type |-> OrElseStr(schema.type, s_object),
   properties |-> IF IsSome(schema.properties)
                  THEN [x \in 1..Len(Get(schema.properties)) |-> parsePropertyEntry(Get(schema.properties)[x])]
                  ELSE <<>>,
   required |-> OrElseObj(schema.required, <<>>),
   description |-> schema.description,
   ref |-> schema.ref]

parseSchemaEntry(e) == parseSchema(e.key, e.value)

parseSchemas(spec) ==
  IF ~IsSome(spec.components) \/ ~IsSome(Get(spec.components).schemas) THEN <<>>
  ELSE [x \in 1..Len(Get(Get(spec.components).schemas)) |-> parseSchemaEntry(Get(Get(spec.components).schemas)[x])]

parseSecuritySchemes(spec) ==
  IF ~IsSome(spec.components) \/ ~IsSome(Get(spec.components).securitySchemes) THEN <<>>
  ELSE Get(Get(spec.components).securitySchemes)

\* a parse() whose getBaseUrl takes the first server with servers.shift()
specAfterParse_ShiftsServers(doc) ==
  [doc EXCEPT !.servers = IF IsSome(@) /\ Len(Get(@)) > 0 THEN Some(Tail(Get(@))) ELSE @]
\* this.spec after parse(): parse() and the methods it calls read this.spec and
\* assign to no field of it
specAfterParse(doc) == doc

infoField(spec, f) == IF IsSome(spec.info) THEN Get(spec.info)[f] ELSE None

parse(spec) ==
  [title |-> OrElseStr(infoField(spec, "title"), s_API),
   version |-> OrElseStr(infoField(spec, "version"), s_1_0_0),
   description |-> infoField(spec, "description"),
   baseUrl |-> getBaseUrl(spec),
   endpoints |-> parseEndpoints(spec),
   schemas |-> parseSchemas(spec),
   securitySchemes |-> parseSecuritySchemes(spec)]

(* ---------------------------------------------------------------------- *)
(* CodeGeneratorEngine.buildContext                                        *)
(*   endpointsByTag is a Map: a sequence of entries in insertion order     *)
(* ---------------------------------------------------------------------- *)

\* a grouping that skips an endpoint its bucket already holds
pushToBucket_Dedup(map, tag, endpoint) ==
  IF \E i \in 1..Len(map) : map[i].key = tag
  THEN [i \in 1..Len(map) |->
          IF map[i].key = tag /\ ~includes(map[i].value, endpoint)
          THEN Entry(tag, Append(map[i].value, endpoint)) ELSE map[i]]
  ELSE Append(map, Entry(tag, <<endpoint>>))
\* if (!map.has(tag)) map.set(tag, []); map.get(tag).push(endpoint)
pushToBucket(map, tag, endpoint) ==
  IF \E i \in 1..Len(map) : map[i].key = tag
  THEN [i \in 1..Len(map) |->
          IF map[i].key = tag THEN Entry(tag, Append(map[i].value, endpoint)) ELSE map[i]]
  ELSE Append(map, Entry(tag, <<endpoint>>))

RECURSIVE groupTags(_, _, _)
\* the inner loop of buildContext: the tags of one endpoint from index t on
groupTags(map, endpoint, t) ==
  IF t > Len(endpoint.tags) THEN map
  ELSE groupTags(pushToBucket(map, endpoint.tags[t], endpoint), endpoint, t + 1)

RECURSIVE groupEndpoints(_, _, _)
\* the outer loop of buildContext: the endpoints from index i on
groupEndpoints(map, endpoints, i) ==
  IF i > Len(endpoints) THEN map
  ELSE groupEndpoints(groupTags(map, endpoints[i], 1), endpoints, i + 1)

buildContext(cfg, parsed) ==
  [config |-> cfg, spec |-> parsed,
   endpointsByTag |-> groupEndpoints(<<>>, parsed.endpoints, 1)]

(* ---------------------------------------------------------------------- *)
(* TypeScriptGenerator: naming utilities                                   *)
(* ---------------------------------------------------------------------- *)
\* '.' of a regular expression matches any character but a line terminator
IsLineTerminator(c) == c \in {"\n", "\r"}

RECURSIVE replaceSeparators(_, _)
\* str.replace(/[-_](.)/g, (_, c) => c.toUpperCase()), scanning from index i
replaceSeparators(s, i) ==
  IF i > Len(s) THEN <<>>
  ELSE IF s[i] \in {"-", "_"} /\ i + 1 <= Len(s) /\ ~IsLineTerminator(s[i + 1])
  THEN <<toUpperChar(s[i + 1])>> \o replaceSeparators(s, i + 2)
  ELSE <<s[i]>> \o replaceSeparators(s, i + 1)

\* str.replace(/^(.)/, (_, c) => c.toUpperCase())
upperFirst(s) ==
  IF Len(s) > 0 /\ ~IsLineTerminator(s[1]) THEN <<toUpperChar(s[1])>> \o Tail(s) ELSE s

\* str.replace(/^(.)/, (_, c) => c.toLowerCase())
lowerFirst(s) ==
  IF Len(s) > 0 /\ ~IsLineTerminator(s[1]) THEN <<toLowerChar(s[1])>> \o Tail(s) ELSE s

\* the length of the longest run of non-alphanumeric characters starting at i
RECURSIVE runLength(_, _)
runLength(s, i) ==
  IF i > Len(s) \/ IsAlnum(s[i]) THEN 0 ELSE 1 + runLength(s, i + 1)

\* the length a greedy [^a-zA-Z0-9]+ ends with at i so that (.) can follow, or 0
matchLength(s, i) ==
  LET lens == {n \in 1..runLength(s, i) :
                 i + n <= Len(s) /\ ~IsLineTerminator(s[i + n])}
  IN  IF lens = {} THEN 0 ELSE CHOOSE n \in lens : \A k \in lens : k <= n

RECURSIVE replaceNonAlnum(_, _)
\* str.replace(/[^a-zA-Z0-9]+(.)/g, (_, c) => c.toUpperCase()), scanning from index i
replaceNonAlnum(s, i) ==
  IF i > Len(s) THEN <<>>
  ELSE IF matchLength(s, i) > 0
  THEN <<toUpperChar(s[i + matchLength(s, i)])>>
       \o replaceNonAlnum(s, i + matchLength(s, i) + 1)
  ELSE <<s[i]>> \o replaceNonAlnum(s, i + 1)

toPascalCase(str) ==
  replaceNonAlnum(upperFirst(replaceSeparators(str, 1)), 1)

toCamelCase(str) ==
  replaceNonAlnum(lowerFirst(replaceSeparators(str, 1)), 1)

(* ---------------------------------------------------------------------- *)
(* TypeScriptGenerator: return types and type mapping                      *)
(* ---------------------------------------------------------------------- *)
\* the last element of $ref.split('/')
lastRefPart(ref) == LET refParts == split(ref, "/") IN refParts[Len(refParts)]


\* a search that returns the last 2xx response instead of the first
findSuccessResponse_Last(responses) ==
  IF \E i \in 1..Len(responses) : startsWith(responses[i].statusCode, <<"2">>)
  THEN Some(responses[CHOOSE i \in 1..Len(responses) :
                        /\ startsWith(responses[i].statusCode, <<"2">>)
                        /\ \A j \in (i + 1)..Len(responses) :
                             ~startsWith(responses[j].statusCode, <<"2">>)])
  ELSE None
\* endpoint.responses.find(r => r.statusCode.startsWith('2'))
findSuccessResponse(responses) ==
  IF \E i \in 1..Len(responses) : startsWith(responses[i].statusCode, <<"2">>)
  THEN Some(responses[CHOOSE i \in 1..Len(responses) :
                        /\ startsWith(responses[i].statusCode, <<"2">>)
                        /\ \A j \in 1..(i - 1) :
                             ~startsWith(responses[j].statusCode, <<"2">>)])
  ELSE None

getReturnType(endpoint) ==
  LET successResponse == findSuccessResponse(endpoint.responses)
  IN  IF ~IsSome(successResponse) \/ ~IsSome(Get(successResponse).schema) THEN s_any
      ELSE LET schema == Get(Get(successResponse).schema)
           IN  IF TruthyStr(schema.ref) THEN lastRefPart(Get(schema.ref))
               ELSE IF schema.type = Some(s_array)
               THEN IF IsSome(schema.items) /\ TruthyStr(Get(schema.items).ref)
                    THEN lastRefPart(Get(Get(schema.items).ref)) \o s_brackets
                    ELSE s_anyArray
               ELSE s_any

s_number == <<"n","u","m","b","e","r">>
s_boolean == <<"b","o","o","l","e","a","n">>
s_file == <<"f","i","l","e">>
s_date == <<"d","a","t","e">>
s_dateTime == <<"d","a","t","e","-","t","i","m","e">>
s_Record == <<"R","e","c","o","r","d","<","s","t","r","i","n","g",","," ","a","n","y",">">>
s_Blob == <<"B","l","o","b">>
s_orNull == <<" ","|"," ","n","u","l","l">>

\* the typeMap table of mapType
typeMap ==
  <<Entry(s_string, s_string), Entry(s_integer, s_number), Entry(s_number, s_number),
    Entry(s_boolean, s_boolean), Entry(s_array, s_anyArray), Entry(s_object, s_Record),
    Entry(s_file, s_Blob), Entry(s_date, s_string), Entry(s_dateTime, s_string)>>

mapType(type, nullable) ==
  LET tsType == OrElseStr(Lookup(typeMap, toLowerCase(type)), type)
  IN  IF OrElseBool(nullable) THEN tsType \o s_orNull ELSE tsType

(* ---------------------------------------------------------------------- *)
(* TypeScriptGenerator: the artifacts                                      *)
(*   a written file is [name, content]; the content of a rendered file is  *)
(*   the data its text is made of, each interpolated line kept as a string *)
(* ---------------------------------------------------------------------- *)
s_undefined == <<"u","n","d","e","f","i","n","e","d">>
s_indent == <<" "," ">>
s_colon == <<":"," ">>
s_Client == <<"C","l","i","e","n","t">>
s_Params == <<"P","a","r","a","m","s">>
s_dashClient == <<"-","c","l","i","e","n","t">>
s_APIClient == <<"A","P","I","C","l","i","e","n","t">>
f_types == "types.ts"
f_index == "index.ts"
f_errors == "errors.ts"
f_params == "params.ts"
f_examples == "examples.ts"
f_package == "package.json"
f_tsconfig == "tsconfig.json"

\* `${x}` of a value that may be undefined
interpolate(o) == IF IsSome(o) THEN Get(o) ELSE s_undefined

capitalizeFirst(str) == toUpperCase(SubSeq(str, 1, 1)) \o slice(str, 1)

\* `  ${name}${required ? '' : '?'}: ${tsType};`
declarationLine(name, required, tsType) ==
  s_indent \o name \o (IF required THEN <<>> ELSE <<"?">>) \o s_colon \o tsType \o <<";">>


\* a required test that reads the flag stored on the parsed property
isRequired_StoredFlag(schema, prop) == prop.required
\* schema.required.includes(prop.name)
isRequired(schema, prop) == includes(schema.required, prop.name)

\* one interface of types.ts: the doc comment, the name and the property lines
schemaDeclaration(schema) ==
  [doc |-> OrElseStr(schema.description, schema.name),
   name |-> schema.name,
   properties |->
     [j \in 1..Len(schema.properties) |->
        LET prop == schema.properties[j]
            tsType == mapType(prop.type, prop.nullable)
            required == isRequired(schema, prop)
        IN  [doc |-> OrElseStr(prop.description, prop.name),
             line |-> declarationLine(prop.name, required, tsType)]]]

\* generateSchemas that writes the types file for an empty schema list too
generateSchemas_Always(schemas) ==
  <<[name |-> f_types, content |-> [x \in 1..Len(schemas) |-> schemaDeclaration(schemas[x])]]>>
\* generateSchemas: the files it writes (none when there is no schema)
generateSchemas(schemas) ==
  IF Len(schemas) = 0 THEN <<>>
  ELSE <<[name |-> f_types, content |-> [x \in 1..Len(schemas) |-> schemaDeclaration(schemas[x])]]>>

formatSchema(schema) ==
  [name |-> schema.name,
   description |-> OrElseStr(schema.description, schema.name),
   properties |->
     [j \in 1..Len(schema.properties) |->
        LET prop == schema.properties[j]
        IN  [name |-> prop.name,
             type |-> mapType(prop.type, prop.nullable),
             required |-> isRequired(schema, prop),
             description |-> OrElseStr(prop.description, prop.name)]]]

formatEndpoint(endpoint) ==
  [methodName |-> toCamelCase(endpoint.operationId),
   path |-> endpoint.path,
   method |-> endpoint.method,
   summary |-> OrElseStr(endpoint.summary, endpoint.operationId),
   parameters |-> endpoint.parameters,
   requestBody |-> endpoint.requestBody,
   returnType |-> getReturnType(endpoint)]

\* one element of endpointsGrouped
groupOf(bucket) ==
  [description |-> capitalizeFirst(bucket.key),
   className |-> toPascalCase(bucket.key) \o s_Client,
   propertyName |-> toCamelCase(bucket.key),
   endpoints |-> [x \in 1..Len(bucket.value) |-> formatEndpoint(bucket.value[x])],
   paramTypeName |-> toPascalCase(bucket.key) \o s_Params]

\* the data generateClientCode hands to the client template
templateData(context) ==
  [clientName |-> context.config.clientName,
   baseUrl |-> context.spec.baseUrl,
   version |-> context.spec.version,
   schemas |-> [x \in 1..Len(context.spec.schemas) |-> formatSchema(context.spec.schemas[x])],
   endpointsByTag |-> [x \in 1..Len(context.endpointsByTag) |-> groupOf(context.endpointsByTag[x])],
   includeErrorHandling |-> context.config.includeErrorHandling,
   includeExamples |-> context.config.includeExamples,
   hasApiKey |-> \E i \in 1..Len(context.spec.securitySchemes) :
                   context.spec.securitySchemes[i].value.type = Some(k_apiKey)]

\* the escaping Handlebars applies to a {{value}}: the ampersand, the angle
\* brackets, the quotes and the equals sign become character entities (so does
\* the backtick, a character no string of this module holds)
escapeExpression(str) ==
  Flat([i \in 1..Len(str) |->
          CASE str[i] = "&" -> <<"&","a","m","p",";">>
            [] str[i] = "<" -> <<"&","l","t",";">>
            [] str[i] = ">" -> <<"&","g","t",";">>
            [] str[i] = "\"" -> <<"&","q","u","o","t",";">>
            [] str[i] = "'" -> <<"&","#","x","2","7",";">>
            [] str[i] = "=" -> <<"&","#","x","3","D",";">>
            [] OTHER -> <<str[i]>>])

\* "export class {{className}}Client {" with one "async {{methodName}}(" per endpoint
renderSubClient(group) ==
  [typeName |-> escapeExpression(group.className) \o s_Client,
   methods |-> [x \in 1..Len(group.endpoints) |->
                  escapeExpression(group.endpoints[x].methodName)]]

\* "public {{propertyName}}: {{className}}Client;" of the root client
renderField(group) ==
  [name |-> escapeExpression(group.propertyName),
   type |-> escapeExpression(group.className) \o s_Client]

\* the declarations of the rendered client template: the sub-client classes,
\* then the root client "export class {{clientName}}" with its fields
clientTemplate(data) ==
  [subClients |-> [x \in 1..Len(data.endpointsByTag) |-> renderSubClient(data.endpointsByTag[x])],
   rootName |-> escapeExpression(data.clientName),
   fields |-> [x \in 1..Len(data.endpointsByTag) |-> renderField(data.endpointsByTag[x])]]

\* generateClientCode: the template applied to its data (the data is kept
\* beside the rendered declarations)
generateClientCode(context) ==
  [f \in DOMAIN templateData(context) \cup {"text"} |->
     IF f = "text" THEN clientTemplate(templateData(context))
     ELSE templateData(context)[f]]

paramLine(param) ==
  declarationLine(interpolate(param.name), param.required, mapType(param.type, None))

\* one interface of params.ts
paramsOf(bucket) ==
  [typeName |-> toPascalCase(bucket.key) \o s_Params,
   lines |-> Flat([i \in 1..Len(bucket.value) |->
                     [x \in 1..Len(bucket.value[i].parameters) |-> paramLine(bucket.value[i].parameters[x])]])]

generateTypesFile(context) ==
  <<[name |-> f_params,
     content |-> [title |-> context.spec.title, version |-> context.spec.version,
                  interfaces |-> [x \in 1..Len(context.endpointsByTag) |-> paramsOf(context.endpointsByTag[x])]]]>>

exampleOf(endpoint) ==
  [summary |-> OrElseStr(endpoint.summary, endpoint.operationId),
   method |-> endpoint.method, path |-> endpoint.path,
   methodName |-> toCamelCase(endpoint.operationId)]

examplesOf(bucket) ==
  [heading |-> capitalizeFirst(bucket.key), examples |-> [x \in 1..Len(bucket.value) |-> exampleOf(bucket.value[x])]]

generateExamples(context) ==
  <<[name |-> f_examples,
     content |-> [title |-> context.spec.title, clientName |-> context.config.clientName,
                  baseUrl |-> context.spec.baseUrl,
                  groups |-> [x \in 1..Len(context.endpointsByTag) |-> examplesOf(context.endpointsByTag[x])]]]>>

\* the errors file is a fixed text; isRetryableError below is its predicate
generateErrorsFile == <<[name |-> f_errors, content |-> "errorsContent"]>>

generatePackageJson(cfg) ==
  <<[name |-> f_package, content |-> toLowerCase(cfg.clientName) \o s_dashClient],
    [name |-> f_tsconfig, content |-> "compilerOptions"]>>

\* a generate that writes the package manifest pair first
generate_ManifestFirst(context) ==
  generatePackageJson(context.config)
  \o generateSchemas(context.spec.schemas)
  \o <<[name |-> f_index, content |-> generateClientCode(context)]>>
  \o (IF context.config.includeErrorHandling THEN generateErrorsFile ELSE <<>>)
  \o generateTypesFile(context)
  \o (IF context.config.includeExamples THEN generateExamples(context) ELSE <<>>)
\* TypeScriptGenerator.generate: the writeFile calls, in order
generate(context) ==
  generateSchemas(context.spec.schemas)
  \o <<[name |-> f_index, content |-> generateClientCode(context)]>>
  \o (IF context.config.includeErrorHandling THEN generateErrorsFile ELSE <<>>)
  \o generateTypesFile(context)
  \o (IF context.config.includeExamples THEN generateExamples(context) ELSE <<>>)
  \o generatePackageJson(context.config)

(* ---------------------------------------------------------------------- *)
(* The emitted error taxonomy (errors.ts)                                  *)
(*   an error value is [class, statusCode]; every class extends ApiError   *)
(* ---------------------------------------------------------------------- *)
ErrorClasses ==
  {"Error", "ApiError", "ApiRequestError", "ApiResponseError", "NetworkError", "TimeoutError"}


\* a predicate that retries only above 500 (> written for >=)
isRetryableError_Above500(error) ==
  IF error.class \in {"NetworkError", "TimeoutError"} THEN TRUE
  ELSE IF /\ error.class = "ApiResponseError"
          /\ IsSome(error.statusCode) /\ Get(error.statusCode) # 0
          /\ Get(error.statusCode) > 500
  THEN TRUE
  ELSE FALSE
isRetryableError(error) ==
  IF error.class \in {"NetworkError", "TimeoutError"} THEN TRUE
  ELSE IF /\ error.class = "ApiResponseError"
          /\ IsSome(error.statusCode) /\ Get(error.statusCode) # 0
          /\ Get(error.statusCode) >= 500
  THEN TRUE
  ELSE FALSE

(* ---------------------------------------------------------------------- *)
(* The input documents                                                     *)
(* ---------------------------------------------------------------------- *)
SeqsUpTo(S, n) == UNION {[1..k -> S] : k \in 0..n}
DistinctKeys(entries) ==
  \A i, j \in 1..Len(entries) : entries[i].key = entries[j].key => i = j

RECURSIVE Ascending(_)
\* the elements of a set of numbers, smallest first
Ascending(I) ==
  IF I = {} THEN <<>>
  ELSE LET m == CHOOSE x \in I : \A y \in I : x <= y
       IN  <<m>> \o Ascending(I \ {m})

InfoPool ==
  {None,
   Some([title |-> None, version |-> None, description |-> None]),
   Some([title |-> Some(<<>>), version |-> Some(i_version), description |-> None]),
   Some([title |-> Some(i_title), version |-> Some(i_version), description |-> Some(i_desc)])}

\* the version markers and the info block vary
MarkerDocs ==
  {[BareDocument EXCEPT !.openapi = o, !.swagger = s, !.info = i] :
     o \in {None, Some(<<>>), Some(v_300)}, s \in {None, Some(<<>>), Some(v_20)},
     i \in InfoPool}

ServerPool == {[url |-> Some(u_a)], [url |-> Some(u_b)], [url |-> None]}

\* the fields the base URL is resolved from vary
UrlDocs ==
  {[BareDocument EXCEPT !.servers = sv, !.host = h, !.schemes = sc, !.basePath = b] :
     sv \in {None} \cup {Some(x) : x \in SeqsUpTo(ServerPool, MaxServers)},
     h \in {None, Some(<<>>), Some(h_host)},
     sc \in {None, Some(<<>>), Some(<<s_http, s_https>>)},
     b \in {None, Some(b_v1)}}

Media(schema) == [schema |-> schema, example |-> None]
ResponseNoContent == [description |-> None, content |-> None]
ResponseOf(schema) ==
  [description |-> Some(i_desc), content |-> Some(<<Entry(m_json, Media(Some(schema)))>>)]
\* two content types, the first without a schema
ResponseTwoTypes ==
  [description |-> Some(<<>>),
   content |-> Some(<<Entry(m_xml, Media(None)), Entry(m_json, Media(Some(RefSchema(r_Pet))))>>)]

\* two content types: the first has an example and no schema, the second a schema
TwoTypesExampleFirst ==
  <<Entry(m_xml, [schema |-> None, example |-> Some(i_desc)]),
    Entry(m_json, [schema |-> Some(RefSchema(r_Pet)), example |-> None])>>

ResponsePool ==
  {ResponseNoContent, ResponseOf(RefSchema(r_Pet)), ResponseOf(ArraySchema(RefSchema(r_Order))),
   ResponseOf(ArraySchema(TypeSchema(s_string))), ResponseOf(TypeSchema(s_string))}

\* the status-code keys, in the order Object.entries yields them
StatusCodes == <<c_200, c_201, c_404, s_default>>

\* the responses objects with at most MaxResponses status codes
ResponseMaps ==
  UNION {{[k \in 1..Len(Ascending(I)) |-> Entry(StatusCodes[Ascending(I)[k]], f[Ascending(I)[k]])] :
            f \in [I -> ResponsePool]} :
         I \in {J \in SUBSET (1..Len(StatusCodes)) : Cardinality(J) <= MaxResponses}}

TagLists == {None} \cup {Some(x) : x \in SeqsUpTo({t_pets, t_store}, MaxTags)}

ParamFull ==
  [name |-> Some(n_id), in |-> Some(s_path), required |-> Some(TRUE),
   schema |-> Some(TypeSchema(s_integer)), description |-> Some(i_desc)]
ParamBare ==
  [name |-> Some(n_q), in |-> None, required |-> None, schema |-> None, description |-> None]

\* operations that exercise parameters, request bodies, security and odd responses
ExtraOps ==
  {[BareOperation EXCEPT !.parameters = Some(<<ParamFull, ParamBare>>)],
   [BareOperation EXCEPT !.parameters = Some(<<>>),
      !.requestBody = Some([required |-> None, content |-> None])],
   [BareOperation EXCEPT
      !.requestBody = Some([required |-> Some(TRUE),
                            content |-> Some(<<Entry(m_xml, Media(None)),
                                               Entry(m_json, Media(Some(RefSchema(r_Pet))))>>)]),
      !.security = Some(<<Some(<<k_auth>>), None, Some(<<k_apiKey, k_auth>>)>>)],
   [BareOperation EXCEPT !.responses = Some(<<Entry(c_200, ResponseTwoTypes)>>)],
   [BareOperation EXCEPT
      !.requestBody = Some([required |-> None, content |-> Some(TwoTypesExampleFirst)]),
      !.responses = Some(<<Entry(c_200, ResponseTwoTypes),
                           Entry(s_default, [description |-> None,
                                             content |-> Some(TwoTypesExampleFirst)])>>)],
   [BareOperation EXCEPT !.responses = Some(<<Entry(c_200, ResponseOf(TypeSchema(s_array)))>>)],
   [BareOperation EXCEPT !.responses = Some(<<Entry(c_200, ResponseOf(EmptySchema))>>)],
   [BareOperation EXCEPT
      !.responses = Some(<<Entry(c_201, ResponseOf(ArraySchema(ArraySchema(RefSchema(r_Pet)))))>>)]}

OpPool ==
  {[BareOperation EXCEPT !.tags = t, !.operationId = id] :
     t \in TagLists, id \in {None, Some(<<>>), Some(o_listPets)}}
  \cup {[BareOperation EXCEPT !.responses = Some(r)] : r \in ResponseMaps}
  \cup ExtraOps

\* one path with one operation; the operation varies
OpDocs ==
  {[BareDocument EXCEPT !.paths = Some(<<Entry(p_pets, <<Entry(s_get, op)>>)>>)] : op \in OpPool}

OpTagged ==
  [BareOperation EXCEPT !.tags = Some(<<t_pets, t_store>>), !.operationId = Some(o_listPets),
     !.responses = Some(<<Entry(c_200, ResponseOf(ArraySchema(RefSchema(r_Pet))))>>)]
OpStore == [BareOperation EXCEPT !.tags = Some(<<t_store>>), !.summary = Some(i_desc)]
OpEmptyTags == [BareOperation EXCEPT !.tags = Some(<<>>)]
OpDupTags == [BareOperation EXCEPT !.tags = Some(<<t_pets, t_pets>>)]

PathKeys == {p_pets, p_petsId, p_root, p_petStore}
PathItemPool ==
  {<<Entry(s_get, BareOperation)>>,
   <<Entry(s_head, OpTagged), Entry(s_trace, BareOperation), Entry(s_get, OpStore)>>,
   <<Entry(s_post, BareOperation), Entry(s_put, OpEmptyTags), Entry(s_delete, OpDupTags)>>,
   <<Entry(s_patch, OpTagged), Entry(s_options, BareOperation)>>}

\* the paths object varies: at most MaxPaths path templates, each with a path item
PathDocs ==
  {[BareDocument EXCEPT !.paths = Some(p)] :
     p \in {q \in SeqsUpTo({Entry(k, v) : k \in PathKeys, v \in PathItemPool}, MaxPaths) :
              DistinctKeys(q)}}

n_tag == <<"t","a","g">>
PetProperties ==
  <<Entry(n_id, TypeSchema(s_integer)),
    Entry(n_name, [TypeSchema(s_string) EXCEPT !.nullable = Some(TRUE)]),
    Entry(n_tag, RefSchema(r_Order))>>
SchemaShapes ==
  {ObjectSchema(PetProperties, None), ObjectSchema(PetProperties, Some(<<n_name>>)),
   ObjectSchema(PetProperties, Some(<<n_ghost, n_id>>)), TypeSchema(s_string)}
SchemaNames == {n_Pet, n_Order, n_tag}
SchemaMaps ==
  {q \in SeqsUpTo({Entry(k, v) : k \in SchemaNames, v \in SchemaShapes}, MaxSchemas) :
     DistinctKeys(q)}

\* the components block varies
SchemaDocs ==
  {[BareDocument EXCEPT !.components = c] :
     c \in {Some([schemas |-> None, securitySchemes |-> None]),
            Some([schemas |-> None,
                  securitySchemes |->
                    Some(<<Entry(k_auth, [type |-> Some(k_apiKey), scheme |-> None])>>)])}
           \cup {Some([schemas |-> Some(m), securitySchemes |-> None]) : m \in SchemaMaps}}

\* a paths object whose one key is the empty string
EmptyPathDocs ==
  {[BareDocument EXCEPT !.paths = Some(<<Entry(<<>>, <<Entry(s_get, BareOperation)>>)>>)]}

Documents ==
  MarkerDocs \cup UrlDocs \cup PathDocs \cup OpDocs \cup SchemaDocs \cup EmptyPathDocs

\* the generator configurations: every combination of the two include flags
Configs ==
  {[language |-> "typescript", clientName |-> s_APIClient,
    includeExamples |-> TRUE, includeErrorHandling |-> TRUE],
   [language |-> "python", clientName |-> s_APIClient,
    includeExamples |-> FALSE, includeErrorHandling |-> TRUE],
   [language |-> "go", clientName |-> s_APIClient,
    includeExamples |-> TRUE, includeErrorHandling |-> FALSE],
   [language |-> "typescript", clientName |-> s_APIClient,
    includeExamples |-> FALSE, includeErrorHandling |-> FALSE]}

\* the errors a generated client can hand to isRetryableError
StatusValues == {None} \cup {Some(n) : n \in {0, 200, 404, 499, 500, 501, 503, 599}}
Errors == {[class |-> c, statusCode |-> s] : c \in ErrorClasses, s \in StatusValues}

(* ---------------------------------------------------------------------- *)
(* The state machine                                                       *)
(* ---------------------------------------------------------------------- *)
VARIABLES
  file,        \* the document at the input path, as JSON.parse returns it
  pc,          \* the position of the run
  parserSpec,  \* OpenAPIParser.spec, None before the constructor returns
  error,       \* the error the run ended with, "" when there is none
  spec,        \* the ParsedAPISpec parse() returned
  context,     \* CodeGeneratorEngine.context
  written,     \* the writeFile calls of the generator, in order
  thrown,      \* the error value handed to isRetryableError
  retryable,   \* what isRetryableError returned for thrown
  options,     \* the options of the command line, None outside a command
  fileStatus,  \* the input path: "ok", "missing" or "unreadable"
  dirs,        \* the directories mkdirSync created
  console,     \* the notices and error reports printed, in order
  runs,        \* the engine.generate() calls: the first one, then one per change event
  watching,    \* the change listener of engine.watch() is registered
  events,      \* the change events the file watcher emitted
  reparsed,    \* what a second parse() call on the same parser returned
  subject,     \* the value a utility function is applied to, None outside such a call
  outcome      \* what the utility functions returned for subject

sessionVars == <<options, fileStatus, dirs, console, runs, watching, events, reparsed>>

vars ==
  <<file, pc, parserSpec, error, spec, context, written, thrown, retryable,
    options, fileStatus, dirs, console, runs, watching, events, reparsed,
    subject, outcome>>

utilVars == <<subject, outcome>>

\* no utility function is under test
NoUtility ==
  /\ subject = None
  /\ outcome = None

\* no command line, no watch session
NoSession ==
  /\ options = None
  /\ fileStatus = "ok"
  /\ dirs = {}
  /\ console = <<>>
  /\ runs = <<>>
  /\ watching = FALSE
  /\ events = 0
  /\ reparsed = None

Init ==
  /\ file \in Documents
  /\ pc = "start"
  /\ parserSpec = None
  /\ error = ""
  /\ spec = None
  /\ context = None
  /\ written = <<>>
  /\ thrown = None
  /\ retryable = None
  /\ NoSession
  /\ NoUtility

\* new OpenAPIParser(specPath)
NewParser ==
  /\ pc = "start"
  /\ IF MissingVersionMarker(file)
     THEN /\ error' = "Invalid OpenAPI specification: missing openapi or swagger field"
          /\ pc' = "failed"
          /\ UNCHANGED parserSpec
     ELSE /\ parserSpec' = Some(file)
          /\ pc' = "constructed"
          /\ UNCHANGED error
  /\ UNCHANGED <<file, spec, context, written, thrown, retryable>>
  /\ UNCHANGED sessionVars
  /\ UNCHANGED utilVars

\* parser.parse()
Parse ==
  /\ pc = "constructed"
  /\ spec' = Some(parse(Get(parserSpec)))
  /\ parserSpec' = Some(specAfterParse(Get(parserSpec)))
  /\ pc' = "parsed"
  /\ UNCHANGED <<file, error, context, written, thrown, retryable>>
  /\ UNCHANGED sessionVars
  /\ UNCHANGED utilVars

\* new CodeGeneratorEngine(config, spec)
NewEngine ==
  /\ pc = "parsed"
  /\ \E cfg \in Configs : context' = Some(buildContext(cfg, Get(spec)))
  /\ pc' = "engine"
  /\ UNCHANGED <<file, parserSpec, error, spec, written, thrown, retryable>>
  /\ UNCHANGED sessionVars
  /\ UNCHANGED utilVars

\* engine.generate(): the generator writes its artifacts
Generate ==
  /\ pc = "engine"
  /\ written' = generate(Get(context))
  /\ pc' = "generated"
  /\ UNCHANGED <<file, parserSpec, error, spec, context, thrown, retryable>>
  /\ UNCHANGED sessionVars
  /\ UNCHANGED utilVars

\* a second parser.parse() call on the same parser
ParseAgain ==
  /\ pc = "parsed"
  /\ reparsed' = Some(parse(Get(parserSpec)))
  /\ parserSpec' = Some(specAfterParse(Get(parserSpec)))
  /\ pc' = "reparsed"
  /\ UNCHANGED <<file, error, spec, context, written, thrown, retryable>>
  /\ UNCHANGED <<options, fileStatus, dirs, console, runs, watching, events>>
  /\ UNCHANGED utilVars

Next == NewParser \/ Parse \/ NewEngine \/ Generate

Spec == Init /\ [][Next]_vars

\* a caller that parses the same document twice
NextReparse == NewParser \/ Parse \/ ParseAgain

SpecReparse == Init /\ [][NextReparse]_vars

(* ---------------------------------------------------------------------- *)
(* The emitted retryability predicate, applied by a generated client       *)
(* ---------------------------------------------------------------------- *)
InitRetry ==
  /\ file = BareDocument
  /\ pc = "client"
  /\ parserSpec = None
  /\ error = ""
  /\ spec = None
  /\ context = None
  /\ written = generateErrorsFile
  /\ thrown = None
  /\ retryable = None
  /\ NoSession
  /\ NoUtility

\* a request of the generated client fails with some error
Throw ==
  /\ pc = "client"
  /\ \E e \in Errors : thrown' = Some(e)
  /\ retryable' = None
  /\ UNCHANGED <<file, pc, parserSpec, error, spec, context, written>>
  /\ UNCHANGED sessionVars
  /\ UNCHANGED utilVars

\* the caller asks isRetryableError(error)
CheckRetryable ==
  /\ pc = "client"
  /\ IsSome(thrown)
  /\ retryable' = Some(isRetryableError(Get(thrown)))
  /\ UNCHANGED <<file, pc, parserSpec, error, spec, context, written, thrown>>
  /\ UNCHANGED sessionVars
  /\ UNCHANGED utilVars

NextRetry == Throw \/ CheckRetryable

SpecRetry == InitRetry /\ [][NextRetry]_vars

(* ---------------------------------------------------------------------- *)
(* The command line: generateClient, watchAndGenerate, a direct caller     *)
(*   a path is the sequence of its segments; path.join appends             *)
(* ---------------------------------------------------------------------- *)
\* the change events of one watch session
MaxChanges == 2

d_out == "output"
l_typescript == "typescript"
l_python == "python"
l_go == "go"
l_rust == "rust"

\* const validLanguages: OutputLanguage[] = ['typescript', 'python', 'go']
validLanguages == {l_typescript, l_python, l_go}

\* fs.existsSync(inputFile)
existsSync(status) == status # "missing"

\* the GeneratorConfig the commands build from their options
configOf(opts, watchMode) ==
  [inputFile |-> opts.input, outputDir |-> opts.output, language |-> opts.language,
   clientName |-> opts.name, includeExamples |-> opts.examples,
   includeErrorHandling |-> opts.errors, watchMode |-> watchMode]

\* a command that ends with a thrown error: the action handler prints it and exits
Failure(message) ==
  [pc |-> "failed", error |-> message, parserSpec |-> None, spec |-> None, context |-> None]

\* new OpenAPIParser(inputFile); parser.parse(); new CodeGeneratorEngine(config, spec)
openSpec(opts, status, doc, watchMode) ==
  IF status # "ok" THEN Failure("cannot read the input file")
  ELSE IF MissingVersionMarker(doc)
  THEN Failure("Invalid OpenAPI specification: missing openapi or swagger field")
  ELSE [pc |-> "running", error |-> "", parserSpec |-> Some(doc), spec |-> Some(parse(doc)),
        context |-> Some(buildContext(configOf(opts, watchMode), parse(doc)))]

\* generateClient up to its engine.generate() call
generateClient(opts, status, doc) ==
  IF ~existsSync(status) THEN Failure("Input file not found")
  ELSE IF opts.language \notin validLanguages THEN Failure("Invalid language")
  ELSE openSpec(opts, status, doc, FALSE)

\* watchAndGenerate up to its engine.generate() call: the language is not validated
watchAndGenerate(opts, status, doc) ==
  IF ~existsSync(status) THEN Failure("Input file not found")
  ELSE openSpec(opts, status, doc, TRUE)

\* a caller of the library: parser, engine, engine.generate(), no command in between
directCall(opts, status, doc) == openSpec(opts, status, doc, FALSE)

\* TypeScriptGenerator.outputDir that leaves the language out
generatorOutputDir_Root(config) == config.outputDir
\* this.outputDir = path.join(config.outputDir, config.language)
generatorOutputDir(config) == config.outputDir \o <<config.language>>

\* writeFile(filename, content) of run r: the file it writes
writeFile(config, artifact, r) ==
  [name |-> artifact.name, content |-> artifact.content,
   path |-> generatorOutputDir(config) \o <<artifact.name>>, run |-> r]

\* getGenerator: the notice it prints for a language other than typescript
getGeneratorNotice(config) ==
  IF config.language = l_typescript THEN <<>>
  ELSE <<[text |-> "Note: not yet fully implemented, generating TypeScript client",
          arg |-> config.language]>>

\* one engine.generate() call: its position, the artifacts it has written, and
\* the content of the input file when it started; for a change handler, the
\* number of times it has called the callback of engine.watch()
NewRun(doc) == [phase |-> "start", k |-> 0, file |-> doc, called |-> 0]

\* a change handler that calls the callback in a finally block
callbackCalls_Finally(generated) == 1
\* await this.generate(); if (callback) callback(): the call is reached only
\* when generate() has resolved
callbackCalls(generated) == IF generated THEN 1 ELSE 0

\* a change handler that lets the error escape (no try/catch): the process ends
catchRegenerationError_Rethrow(session) ==
  [session EXCEPT !.pc = "failed", !.watching = FALSE]
\* catch (error) { console.error('Error regenerating:', error) }
catchRegenerationError(session) ==
  [session EXCEPT !.console = Append(@, [text |-> "Error regenerating:", arg |-> "EIO"])]

\* a writeFile that awaits an asynchronous write, so a run yields between writes
yieldsToEventLoop_AsyncWrites(phase) == phase \in {"writing", "done", "failed"}
\* a run in this phase has returned to the event loop, so that another change
\* event can be dispatched: mkdirSync and writeFileSync block, and the one await
\* of engine.generate() is on a settled promise, resumed before the next event
yieldsToEventLoop(phase) == phase \in {"done", "failed"}

\* the document of the spec's end-to-end example: Pet{id, name (required)} and
\* GET /pets/{id} -> Pet
PetStoreDocument ==
  [BareDocument EXCEPT
     !.paths = Some(<<Entry(p_petsId, <<Entry(s_get,
                  [BareOperation EXCEPT
                     !.tags = Some(<<t_pets>>),
                     !.responses = Some(<<Entry(c_200, ResponseOf(RefSchema(r_Pet)))>>)])>>)>>),
     !.components =
        Some([schemas |-> Some(<<Entry(n_Pet,
                ObjectSchema(<<Entry(n_id, TypeSchema(s_integer)),
                               Entry(n_name, TypeSchema(s_string))>>, Some(<<n_name>>)))>>),
              securitySchemes |-> None])]
NoMarkerDocument == [BareDocument EXCEPT !.openapi = None]

\* what the input file holds when a command starts, and what an edit leaves in it
CliDocuments == {BareDocument, PetStoreDocument, NoMarkerDocument}
ChangedDocuments == {BareDocument, PetStoreDocument}

\* the options of a command: every language and flag for generate, a recognized
\* and an unrecognized language for watch and for a direct call
CliOptions ==
  {[command |-> "generate", input |-> <<"api.json">>, output |-> <<d_out>>, language |-> l,
    name |-> s_APIClient, examples |-> e, errors |-> h] :
     l \in {l_typescript, l_python, l_go, l_rust}, e \in BOOLEAN, h \in BOOLEAN}
  \cup
  {[command |-> c, input |-> <<"api.json">>, output |-> <<d_out>>, language |-> l,
    name |-> s_APIClient, examples |-> FALSE, errors |-> TRUE] :
     c \in {"watch", "direct"}, l \in {l_typescript, l_python, l_rust}}

(* ---------------------------------------------------------------------- *)
(* A command, its engine.generate() call and the watch session             *)
(* ---------------------------------------------------------------------- *)
InitCli ==
  /\ file \in CliDocuments
  /\ fileStatus \in {"ok", "missing", "unreadable"}
  /\ options \in {Some(o) : o \in CliOptions}
  /\ pc = "cli"
  /\ parserSpec = None
  /\ error = ""
  /\ spec = None
  /\ context = None
  /\ written = <<>>
  /\ thrown = None
  /\ retryable = None
  /\ dirs = {}
  /\ console = <<>>
  /\ runs = <<>>
  /\ watching = FALSE
  /\ events = 0
  /\ reparsed = None
  /\ NoUtility

\* the command up to its first engine.generate() call
Command ==
  /\ pc = "cli"
  /\ LET opts == Get(options)
         r == CASE opts.command = "generate" -> generateClient(opts, fileStatus, file)
                [] opts.command = "watch" -> watchAndGenerate(opts, fileStatus, file)
                [] OTHER -> directCall(opts, fileStatus, file)
     IN  /\ pc' = r.pc
         /\ error' = r.error
         /\ parserSpec' = r.parserSpec
         /\ spec' = r.spec
         /\ context' = r.context
         /\ runs' = IF r.pc = "running" THEN <<NewRun(file)>> ELSE <<>>
  /\ UNCHANGED <<file, written, thrown, retryable, options, fileStatus, dirs, console,
                 watching, events, reparsed>>
  /\ UNCHANGED utilVars

\* run r can take its next step: the process lives and no other run holds the thread
CanStep(r) ==
  /\ pc \in {"running", "watching"}
  /\ r \in 1..Len(runs)
  /\ \A q \in (1..Len(runs)) \ {r} : yieldsToEventLoop(runs[q].phase)

\* run r throws, in generate() or (generated) in the callback after it: the first
\* run's error leaves the command, a change handler's error is caught by the handler
RunFails(r, printed, generated) ==
  /\ runs' = [runs EXCEPT ![r].phase = "failed",
                          ![r].called = IF r = 1 THEN 0 ELSE callbackCalls(generated)]
  /\ IF r = 1
     THEN /\ pc' = "failed"
          /\ error' = "EIO"
          /\ console' = console \o printed
          /\ UNCHANGED watching
     ELSE LET s == catchRegenerationError(
                     [pc |-> pc, watching |-> watching, console |-> console \o printed])
          IN  /\ pc' = s.pc
              /\ watching' = s.watching
              /\ console' = s.console
              /\ UNCHANGED error

\* engine.generate() up to the generator's first artifact: mkdirSync(config.outputDir),
\* getGenerator(), mkdirSync(this.outputDir); either mkdirSync may throw
EnsureDirs(r) ==
  /\ CanStep(r)
  /\ runs[r].phase = "start"
  /\ LET config == Get(context).config
     IN  \/ /\ dirs' = dirs \cup {config.outputDir, generatorOutputDir(config)}
            /\ console' = console \o getGeneratorNotice(config)
            /\ runs' = [runs EXCEPT ![r].phase = "writing"]
            /\ UNCHANGED <<pc, error, watching>>
         \/ /\ config.outputDir \notin dirs
            /\ UNCHANGED dirs
            /\ RunFails(r, <<>>, FALSE)
         \/ /\ generatorOutputDir(config) \notin dirs
            /\ dirs' = dirs \cup {config.outputDir}
            /\ RunFails(r, getGeneratorNotice(config), FALSE)
  /\ UNCHANGED <<file, parserSpec, spec, context, written, thrown, retryable, options,
                 fileStatus, events, reparsed>>
  /\ UNCHANGED utilVars

\* the next writeFile call of run r; writeFileSync may throw
WriteNext(r) ==
  /\ CanStep(r)
  /\ runs[r].phase = "writing"
  /\ LET config == Get(context).config
         artifacts == generate(Get(context))
         k == runs[r].k
     IN  \/ /\ written' = Append(written, writeFile(config, artifacts[k + 1], r))
            /\ runs' = [runs EXCEPT ![r].k = k + 1,
                                    ![r].phase = IF k + 1 = Len(artifacts)
                                                 THEN "awaiting" ELSE "writing"]
            /\ UNCHANGED <<pc, error, watching, console>>
         \/ /\ UNCHANGED written
            /\ RunFails(r, <<>>, FALSE)
  /\ UNCHANGED <<file, parserSpec, spec, context, thrown, retryable, options, fileStatus,
                 dirs, events, reparsed>>
  /\ UNCHANGED utilVars

\* engine.generate() returns: the command goes on (watchAndGenerate calls
\* engine.watch()), a change handler calls its callback, which returns or throws
\* (the callback is the caller's: the command's prints 'Regeneration complete!')
Complete(r) ==
  /\ CanStep(r)
  /\ runs[r].phase = "awaiting"
  /\ IF r = 1
     THEN /\ runs' = [runs EXCEPT ![r].phase = "done"]
          /\ IF Get(options).command = "watch"
             THEN /\ pc' = "watching"
                  /\ watching' = TRUE
                  /\ console' = console \o <<[text |-> "Generation complete!", arg |-> ""],
                                             [text |-> "Watching for changes", arg |-> ""]>>
             ELSE /\ pc' = "done"
                  /\ console' = Append(console, [text |-> "Generation complete!", arg |-> ""])
                  /\ UNCHANGED watching
          /\ UNCHANGED error
     ELSE \/ /\ runs' = [runs EXCEPT ![r].phase = "done", ![r].called = callbackCalls(TRUE)]
             /\ console' = console \o <<[text |-> "Generation complete!", arg |-> ""],
                                        [text |-> "Regeneration complete!", arg |-> ""]>>
             /\ UNCHANGED <<pc, watching, error>>
          \/ RunFails(r, <<[text |-> "Generation complete!", arg |-> ""]>>, TRUE)
  /\ UNCHANGED <<file, parserSpec, spec, context, written, thrown, retryable,
                 options, fileStatus, dirs, events, reparsed>>
  /\ UNCHANGED utilVars

\* the input file is edited and the watcher queues a change event
FileChanged ==
  /\ pc = "watching"
  /\ watching
  /\ events < MaxChanges
  /\ \E doc \in ChangedDocuments : file' = doc
  /\ events' = events + 1
  /\ UNCHANGED <<pc, parserSpec, error, spec, context, written, thrown, retryable, options,
                 fileStatus, dirs, console, runs, watching, reparsed>>
  /\ UNCHANGED utilVars

\* watcher.on('change', ...): the handler starts for the oldest queued event
Dispatch ==
  /\ pc = "watching"
  /\ watching
  /\ Len(runs) - 1 < events
  /\ \A q \in 1..Len(runs) : yieldsToEventLoop(runs[q].phase)
  /\ runs' = Append(runs, NewRun(file))
  /\ console' = Append(console, [text |-> "File changed, regenerating...", arg |-> ""])
  /\ UNCHANGED <<file, pc, parserSpec, error, spec, context, written, thrown, retryable,
                 options, fileStatus, dirs, watching, events, reparsed>>
  /\ UNCHANGED utilVars

NextCli ==
  \/ Command
  \/ \E r \in 1..(MaxChanges + 1) : EnsureDirs(r) \/ WriteNext(r) \/ Complete(r)
  \/ FileChanged
  \/ Dispatch

SpecCli == InitCli /\ [][NextCli]_vars

(* ---------------------------------------------------------------------- *)
(* Type labels: a schema node is resolved to a label by the parser and the *)
(* label is mapped to a TypeScript type by the generator                   *)
(* ---------------------------------------------------------------------- *)
\* the nesting depth of the arrays among the schema nodes
MaxDepth == 2

s_email == <<"e","m","a","i","l">>
s_uri == <<"u","r","i">>
s_String == <<"S","t","r","i","n","g">>
r_File == <<"#","/","c","o","m","p","o","n","e","n","t","s","/","s","c","h","e","m","a","s","/","F","i","l","e">>
r_Trailing == <<"#","/","d","e","f","i","n","i","t","i","o","n","s","/">>

\* the nodes without items: references, declared types, neither
LeafNodes ==
  {RefSchema(r) : r \in {r_Pet, r_File, r_Trailing, <<>>}}
  \cup {TypeSchema(t) : t \in {s_string, s_integer, s_number, s_boolean, s_array, s_object,
                               s_file, s_date, s_dateTime, s_email, s_uri, s_String, <<>>}}
  \cup {EmptySchema, [RefSchema(r_Pet) EXCEPT !.type = Some(s_string)]}

RECURSIVE NodesAt(_)
\* the nodes whose arrays nest exactly d deep
NodesAt(d) ==
  IF d = 0 THEN LeafNodes ELSE {ArraySchema(n) : n \in NodesAt(d - 1)}

\* the nodes whose arrays nest at most d deep
SchemaNodes(d) == UNION {NodesAt(k) : k \in 0..d}

\* a property of a schema (nullable or not) or a parameter (its schema may be absent)
TypeSubjects ==
  {[use |-> "property", schema |-> Some([n EXCEPT !.nullable = b])] :
     n \in SchemaNodes(MaxDepth), b \in {None, Some(TRUE), Some(FALSE)}}
  \cup {[use |-> "parameter", schema |-> s] :
          s \in {None} \cup {Some(n) : n \in SchemaNodes(MaxDepth)}}

InitTypes ==
  /\ subject \in {Some(s) : s \in TypeSubjects}
  /\ outcome = None
  /\ file = BareDocument
  /\ pc = "schema"
  /\ parserSpec = None
  /\ error = ""
  /\ spec = None
  /\ context = None
  /\ written = <<>>
  /\ thrown = None
  /\ retryable = None
  /\ NoSession

\* parseProperty / parseParameters: the parser labels the node
ResolveType ==
  /\ pc = "schema"
  /\ LET s == Get(subject)
         isProperty == s.use = "property"
         label == IF isProperty THEN parseProperty(n_name, Get(s.schema)).type
                  ELSE parseParameter([ParamBare EXCEPT !.schema = s.schema]).type
         nullable == IF isProperty THEN parseProperty(n_name, Get(s.schema)).nullable
                     ELSE None
     IN  outcome' = Some([label |-> label, nullable |-> nullable, tsType |-> None])
  /\ pc' = "labelled"
  /\ UNCHANGED <<file, parserSpec, error, spec, context, written, thrown, retryable, subject>>
  /\ UNCHANGED sessionVars

\* generateSchemas / generateTypesFile: the generator maps the label
MapType ==
  /\ pc = "labelled"
  /\ outcome' = Some([Get(outcome) EXCEPT
                        !.tsType = Some(IF Get(subject).use = "property"
                                        THEN mapType(Get(outcome).label, Get(outcome).nullable)
                                        ELSE mapType(Get(outcome).label, None))])
  /\ pc' = "mapped"
  /\ UNCHANGED <<file, parserSpec, error, spec, context, written, thrown, retryable, subject>>
  /\ UNCHANGED sessionVars

NextTypes == ResolveType \/ MapType

SpecTypes == InitTypes /\ [][NextTypes]_vars

(* ---------------------------------------------------------------------- *)
(* The naming utilities applied to a string (a tag or an operationId)      *)
(* ---------------------------------------------------------------------- *)
\* the length of the strings the naming utilities are applied to
MaxChars == 3

\* a lower-case letter, an upper-case letter, a digit, the two separators of
\* the first replace and another non-alphanumeric character
NameChars == {"a", "B", "1", "-", "_", "."}

InitCase ==
  /\ subject \in {Some(s) : s \in SeqsUpTo(NameChars, MaxChars)}
  /\ outcome = None
  /\ file = BareDocument
  /\ pc = "naming"
  /\ parserSpec = None
  /\ error = ""
  /\ spec = None
  /\ context = None
  /\ written = <<>>
  /\ thrown = None
  /\ retryable = None
  /\ NoSession

\* this.toPascalCase(str)
ToPascalCase ==
  /\ pc = "naming"
  /\ outcome' = Some([pascal |-> Some(toPascalCase(Get(subject))),
                      camel |-> IF outcome = None THEN None ELSE Get(outcome).camel])
  /\ UNCHANGED <<file, pc, parserSpec, error, spec, context, written, thrown, retryable,
                 subject>>
  /\ UNCHANGED sessionVars

\* this.toCamelCase(str)
ToCamelCase ==
  /\ pc = "naming"
  /\ outcome' = Some([pascal |-> IF outcome = None THEN None ELSE Get(outcome).pascal,
                      camel |-> Some(toCamelCase(Get(subject)))])
  /\ UNCHANGED <<file, pc, parserSpec, error, spec, context, written, thrown, retryable,
                 subject>>
  /\ UNCHANGED sessionVars

NextCase == ToPascalCase \/ ToCamelCase

SpecCase == InitCase /\ [][NextCase]_vars

(* ---------------------------------------------------------------------- *)
(* Properties                                                              *)
(* ---------------------------------------------------------------------- *)
\* the run has a ParsedAPISpec
Parsed == pc \in {"parsed", "engine", "generated"}
\* the field holds a value the code's truthiness test accepts (a non-empty string)
HasValue(o) == o # None /\ o # Some(<<>>)
HasVersionMarker(doc) == HasValue(doc.openapi) \/ HasValue(doc.swagger)
InvalidSpecification == "Invalid OpenAPI specification: missing openapi or swagger field"

\* C1: constructing the parser on a document with neither version marker fails
\* with the invalid-specification error and yields no parser and no spec; a
\* document with at least one marker (a non-empty openapi or swagger value)
\* passes the gate and becomes the parser's document.
C1_VersionGate ==
  pc # "start" =>
    IF HasVersionMarker(file)
    THEN pc # "failed" /\ error = "" /\ parserSpec = Some(file)
    ELSE pc = "failed" /\ error = InvalidSpecification /\ parserSpec = None /\ spec = None

C1_Witness ==
  /\ pc = "failed" /\ error = InvalidSpecification
  /\ file.openapi = None /\ file.swagger = None

\* the operation object an endpoint was parsed from
SourceOperation(endpoint) ==
  Get(Lookup(Get(Lookup(Get(file.paths), endpoint.path)), toLowerCase(endpoint.method)))

\* C2: once the version gate is passed parse() returns a spec whatever else is
\* absent, and every absent field is replaced by its default: title 'API',
\* version '1.0.0', no paths -> no endpoints, no components -> no schemas and no
\* security schemes, absent parameters/responses -> empty lists, absent
\* parameter location -> 'query', absent required -> false, absent response
\* description -> ''.
C2_DefaultsNotFailures ==
  /\ (pc # "start" /\ HasVersionMarker(file)) => (pc # "failed" /\ error = "")
  /\ pc = "constructed" =>
       (IsSome(parserSpec) /\ parse(Get(parserSpec)).title # <<>>)
  /\ Parsed =>
       /\ IsSome(spec)
       /\ (file.info = None \/ Get(file.info).title = None) => Get(spec).title = s_API
       /\ (file.info = None \/ Get(file.info).version = None) => Get(spec).version = s_1_0_0
       /\ file.paths = None => Get(spec).endpoints = <<>>
       /\ file.components = None =>
            Get(spec).schemas = <<>> /\ Get(spec).securitySchemes = <<>>
       /\ \A k \in 1..Len(Get(spec).endpoints) :
            LET endpoint == Get(spec).endpoints[k]
                operation == SourceOperation(endpoint)
            IN  /\ operation.parameters = None => endpoint.parameters = <<>>
                /\ operation.responses = None => endpoint.responses = <<>>
                /\ operation.requestBody = None => endpoint.requestBody = None
                /\ IsSome(operation.parameters) =>
                     /\ Len(endpoint.parameters) = Len(Get(operation.parameters))
                     /\ \A j \in 1..Len(endpoint.parameters) :
                          LET param == Get(operation.parameters)[j]
                          IN  /\ param.in = None => endpoint.parameters[j].in = s_query
                              /\ param.required = None =>
                                   endpoint.parameters[j].required = FALSE
                              /\ param.schema = None => endpoint.parameters[j].type = s_any
                /\ IsSome(operation.requestBody) =>
                     (Get(operation.requestBody).required = None =>
                        Get(endpoint.requestBody).required = FALSE)
                /\ IsSome(operation.responses) =>
                     /\ Len(endpoint.responses) = Len(Get(operation.responses))
                     /\ \A j \in 1..Len(endpoint.responses) :
                          Get(operation.responses)[j].value.description = None =>
                            endpoint.responses[j].description = <<>>

C2_Witness ==
  /\ pc = "parsed" /\ file.info = None /\ file.components = None
  /\ \E k \in 1..Len(Get(spec).endpoints) :
       /\ IsSome(SourceOperation(Get(spec).endpoints[k]).parameters)
       /\ \E j \in 1..Len(Get(spec).endpoints[k].parameters) :
            /\ Get(SourceOperation(Get(spec).endpoints[k]).parameters)[j].in = None
            /\ Get(spec).endpoints[k].parameters[j].in = s_query

SevenVerbs == {s_get, s_post, s_put, s_delete, s_patch, s_options, s_head}
\* the (path, verb) pairs of a document for which an operation object is present
PresentOperations(doc) ==
  IF doc.paths = None THEN {}
  ELSE {pv \in (1..Len(Get(doc.paths))) \X SevenVerbs :
          IsSome(Lookup(Get(doc.paths)[pv[1]].value, pv[2]))}
\* the number of component schemas a document declares
DeclaredSchemas(doc) ==
  IF doc.components = None \/ Get(doc.components).schemas = None THEN 0
  ELSE Len(Get(Get(doc.components).schemas))

\* C3: the spec parse() returns has as many endpoints as there are (path, verb)
\* pairs, over the declared paths and the seven verbs, with an operation object,
\* and as many schemas as the document declares component schemas.
C3_Counts ==
  Parsed =>
    /\ Len(Get(spec).endpoints) = Cardinality(PresentOperations(file))
    /\ Len(Get(spec).schemas) = DeclaredSchemas(file)

C3_Witness ==
  /\ pc = "parsed" /\ Len(Get(spec).endpoints) = 5
  /\ \E i \in 1..Len(Get(file.paths)) : IsSome(Lookup(Get(file.paths)[i].value, s_trace))
  /\ \E i \in 1..Len(Get(file.paths)) : IsSome(Lookup(Get(file.paths)[i].value, s_head))

\* C4: the base URL is the first server's URL when the document has a server
\* entry, also when a legacy host is present; otherwise scheme://host+basePath
\* when a legacy host is present, the scheme defaulting to 'https' and the base
\* path to empty; otherwise the fixed placeholder URL.
C4_BaseUrlPrecedence ==
  Parsed =>
    LET hasServer == file.servers # None /\ Get(file.servers) # <<>>
        scheme == IF file.schemes = None \/ Get(file.schemes) = <<>>
                     \/ Get(file.schemes)[1] = <<>>
                  THEN s_https ELSE Get(file.schemes)[1]
        basePath == IF file.basePath = None THEN <<>> ELSE Get(file.basePath)
    IN  /\ hasServer => Get(spec).baseUrl = Get(file.servers)[1].url
        /\ (~hasServer /\ HasValue(file.host)) =>
             Get(spec).baseUrl = Some(scheme \o <<":", "/", "/">> \o Get(file.host) \o basePath)
        /\ (~hasServer /\ ~HasValue(file.host)) => Get(spec).baseUrl = Some(s_placeholder)

C4_Witness ==
  /\ pc = "parsed"
  /\ IsSome(file.servers) /\ Len(Get(file.servers)) = 2 /\ file.host = Some(h_host)
  /\ Get(spec).baseUrl = Get(file.servers)[1].url
  /\ Get(spec).baseUrl = Some(u_b)

\* the first non-empty segment of a path split on '/', "default" when there is none
FirstSegment(path) ==
  LET nonSlash == {i \in 1..Len(path) : path[i] # "/"}
  IN  IF nonSlash = {} THEN s_default
      ELSE LET a == CHOOSE i \in nonSlash : \A j \in nonSlash : i <= j
               b == CHOOSE i \in a..Len(path) :
                      /\ \A k \in a..i : path[k] # "/"
                      /\ (i = Len(path) \/ path[i + 1] = "/")
           IN  SubSeq(path, a, b)

\* C5 as stated: the identifier is the declared one when present, otherwise
\* lowercase(method) + PascalCase(first non-empty path segment).
C5_PascalCaseSegment ==
  Parsed =>
    \A k \in 1..Len(Get(spec).endpoints) :
      LET endpoint == Get(spec).endpoints[k]
          declared == SourceOperation(endpoint).operationId
      IN  endpoint.operationId =
            IF HasValue(declared) THEN Get(declared)
            ELSE toLowerCase(endpoint.method) \o toPascalCase(FirstSegment(endpoint.path))

\* C5 (amended): the identifier is the declared one when present, otherwise
\* lowercase(method) followed by the first non-empty path segment with its first
\* character uppercased and the rest unchanged ("default" when the path has no
\* segment): GET /pets -> getPets, POST / -> postDefault, GET /pet-store ->
\* getPet-store. It depends on the method and that segment only, so operations
\* that share both get the same identifier.
C5_OperationId ==
  Parsed =>
    /\ \A k \in 1..Len(Get(spec).endpoints) :
         LET endpoint == Get(spec).endpoints[k]
             declared == SourceOperation(endpoint).operationId
             segment == FirstSegment(endpoint.path)
         IN  endpoint.operationId =
               IF HasValue(declared) THEN Get(declared)
               ELSE toLowerCase(endpoint.method) \o <<toUpperChar(Head(segment))>>
                    \o Tail(segment)
    /\ \A k \in 1..Len(Get(spec).endpoints) :
         LET endpoint == Get(spec).endpoints[k]
         IN  ~HasValue(SourceOperation(endpoint).operationId) =>
               /\ (endpoint.method = toUpperCase(s_get) /\ endpoint.path = p_pets) =>
                    endpoint.operationId = <<"g","e","t","P","e","t","s">>
               /\ (endpoint.method = toUpperCase(s_post) /\ endpoint.path = p_root) =>
                    endpoint.operationId = <<"p","o","s","t","D","e","f","a","u","l","t">>

C5_Witness ==
  /\ pc = "parsed"
  /\ \E k, l \in 1..Len(Get(spec).endpoints) :
       /\ k # l
       /\ Get(spec).endpoints[k].path = p_pets /\ Get(spec).endpoints[l].path = p_petsId
       /\ ~HasValue(SourceOperation(Get(spec).endpoints[k]).operationId)
       /\ ~HasValue(SourceOperation(Get(spec).endpoints[l]).operationId)
       /\ Get(spec).endpoints[k].operationId = <<"g","e","t","P","e","t","s">>
       /\ Get(spec).endpoints[l].operationId = <<"g","e","t","P","e","t","s">>

\* the engine has built its context
Built == pc \in {"engine", "generated"}
Buckets == Get(context).endpointsByTag
InBucket(endpoint, bucket) == \E i \in 1..Len(bucket.value) : bucket.value[i] = endpoint
InSomeBucket(endpoint) == \E b \in 1..Len(Buckets) : InBucket(endpoint, Buckets[b])

\* C6 as stated: every endpoint has at least one tag and appears in at least one
\* bucket, and an endpoint whose operation declares no tags has the single tag
\* "default" and appears in the "default" bucket and in no other.
C6_EveryEndpointTagged ==
  Built =>
    \A k \in 1..Len(Get(spec).endpoints) :
      LET endpoint == Get(spec).endpoints[k]
      IN  /\ Len(endpoint.tags) >= 1
          /\ InSomeBucket(endpoint)
          /\ SourceOperation(endpoint).tags = None =>
               /\ endpoint.tags = <<s_default>>
               /\ \A b \in 1..Len(Buckets) :
                    InBucket(endpoint, Buckets[b]) <=> Buckets[b].key = s_default

\* C6 (amended): an endpoint whose operation has no tags field has the single
\* tag "default" and appears in the "default" bucket and in no other; an
\* endpoint whose operation declares a tag list keeps that list; an endpoint
\* appears in at least one bucket exactly when its tag list is not empty, so an
\* operation that declares an empty tag list yields an endpoint in no bucket.
C6_DefaultTag ==
  Built =>
    \A k \in 1..Len(Get(spec).endpoints) :
      LET endpoint == Get(spec).endpoints[k]
          declared == SourceOperation(endpoint).tags
      IN  /\ declared = None =>
               /\ endpoint.tags = <<s_default>>
               /\ \A b \in 1..Len(Buckets) :
                    InBucket(endpoint, Buckets[b]) <=> Buckets[b].key = s_default
               /\ \E b \in 1..Len(Buckets) : Buckets[b].key = s_default
          /\ declared # None => endpoint.tags = Get(declared)
          /\ InSomeBucket(endpoint) <=> endpoint.tags # <<>>

C6_Witness ==
  /\ pc = "engine"
  /\ \E k, l \in 1..Len(Get(spec).endpoints) :
       /\ SourceOperation(Get(spec).endpoints[k]).tags = None
       /\ \E b \in 1..Len(Buckets) :
            Buckets[b].key = s_default /\ InBucket(Get(spec).endpoints[k], Buckets[b])
       /\ SourceOperation(Get(spec).endpoints[l]).tags = Some(<<>>)
       /\ ~InSomeBucket(Get(spec).endpoints[l])

Count(s, x) == Cardinality({i \in 1..Len(s) : s[i] = x})
FirstIndex(s, x) == CHOOSE i \in 1..Len(s) : s[i] = x /\ \A j \in 1..(i - 1) : s[j] # x
\* every tag occurrence of the spec, endpoint after endpoint
AllTags == Flat([k \in 1..Len(Get(spec).endpoints) |-> Get(spec).endpoints[k].tags])

\* C7: the context groups by pure aggregation: an endpoint occurs in bucket t
\* as often as t occurs in its tags (no deduplication) and a bucket holds nothing
\* but endpoints of the spec; there is one bucket per tag some endpoint carries
\* and none for any other tag; buckets are in the order of first occurrence of
\* their tags; inside a bucket the endpoints keep the spec's order.
C7_PureAggregation ==
  Built =>
    LET endpoints == Get(spec).endpoints
    IN  /\ Get(context).spec = Get(spec)
        /\ \A b \in 1..Len(Buckets) :
             /\ \A k \in 1..Len(endpoints) :
                  Count(Buckets[b].value, endpoints[k]) =
                    Count(endpoints[k].tags, Buckets[b].key)
             /\ \A i \in 1..Len(Buckets[b].value) : includes(endpoints, Buckets[b].value[i])
             /\ includes(AllTags, Buckets[b].key)
        /\ \A i \in 1..Len(AllTags) : \E b \in 1..Len(Buckets) : Buckets[b].key = AllTags[i]
        /\ \A b, c \in 1..Len(Buckets) :
             b < c => FirstIndex(AllTags, Buckets[b].key) < FirstIndex(AllTags, Buckets[c].key)
        /\ \A b \in 1..Len(Buckets) :
             \A i, j \in 1..Len(Buckets[b].value) :
               i < j => FirstIndex(endpoints, Buckets[b].value[i])
                          <= FirstIndex(endpoints, Buckets[b].value[j])

C7_Witness ==
  /\ pc = "engine"
  /\ Len(Buckets) >= 2
  /\ \E b \in 1..Len(Buckets) :
       /\ Len(Buckets[b].value) >= 3
       /\ \E k \in 1..Len(Get(spec).endpoints) :
            Count(Buckets[b].value, Get(spec).endpoints[k]) = 2

\* the content of the written file of that name
ContentOf(name) == written[CHOOSE i \in 1..Len(written) : written[i].name = name].content
IsWritten(name) == \E i \in 1..Len(written) : written[i].name = name
\* the part of a string after its last '/'
AfterLastSlash(s) ==
  LET slashes == {i \in 1..Len(s) : s[i] = "/"}
  IN  IF slashes = {} THEN s
      ELSE SubSeq(s, (CHOOSE i \in slashes : \A j \in slashes : j <= i) + 1, Len(s))
\* the responses whose status code begins with "2", as indexes
SuccessIndexes(responses) ==
  {i \in 1..Len(responses) :
     Len(responses[i].statusCode) > 0 /\ Head(responses[i].statusCode) = "2"}
\* the schema of the first response whose status code begins with "2", if any
FirstSuccessSchema(responses) ==
  IF SuccessIndexes(responses) = {} THEN None
  ELSE responses[CHOOSE i \in SuccessIndexes(responses) :
                   \A j \in SuccessIndexes(responses) : i <= j].schema
\* the return type the client artifact gives endpoint k of bucket b
ReturnTypeOf(b, k) == ContentOf(f_index).endpointsByTag[b].endpoints[k].returnType

\* C8 as stated: the return type comes from the first 2xx response; 'any' when
\* there is none or it has no schema, otherwise the label the normalizer's type
\* resolver gives that schema.
C8_SameRulesAsResolver ==
  pc = "generated" =>
    \A b \in 1..Len(Buckets) : \A k \in 1..Len(Buckets[b].value) :
      LET schema == FirstSuccessSchema(Buckets[b].value[k].responses)
      IN  ReturnTypeOf(b, k) = IF schema = None THEN s_any ELSE getSchemaType(schema)

\* C8 (amended): the return type comes from the first response, in response
\* order, whose status code begins with "2": 'any' when there is none or it has
\* no schema; the last path segment of the reference when the schema is a
\* reference; that of the items' reference followed by "[]" when the schema is
\* an array whose items are a reference (Pet[]); in these two cases it is the
\* label of the normalizer's type resolver. An array of anything else yields
\* 'any[]' and every other schema yields 'any'.
C8_ReturnType ==
  pc = "generated" =>
    \A b \in 1..Len(Buckets) : \A k \in 1..Len(Buckets[b].value) :
      LET first == FirstSuccessSchema(Buckets[b].value[k].responses)
          schema == Get(first)
          isRef == HasValue(schema.ref)
          isArray == schema.type = Some(s_array)
          refItems == schema.items # None /\ HasValue(Get(schema.items).ref)
      IN  /\ first = None => ReturnTypeOf(b, k) = s_any
          /\ (first # None /\ isRef) =>
               /\ ReturnTypeOf(b, k) = AfterLastSlash(Get(schema.ref))
               /\ ReturnTypeOf(b, k) = getSchemaType(first)
          /\ (first # None /\ ~isRef /\ isArray /\ refItems) =>
               /\ ReturnTypeOf(b, k) = AfterLastSlash(Get(Get(schema.items).ref)) \o <<"[", "]">>
               /\ ReturnTypeOf(b, k) = getSchemaType(first)
          /\ (first # None /\ ~isRef /\ isArray /\ ~refItems) =>
               ReturnTypeOf(b, k) = <<"a","n","y","[","]">>
          /\ (first # None /\ ~isRef /\ ~isArray) => ReturnTypeOf(b, k) = s_any
          /\ first = Some(ArraySchema(RefSchema(r_Pet))) =>
               ReturnTypeOf(b, k) = <<"P","e","t","[","]">>

C8_Witness ==
  /\ pc = "generated"
  /\ \E b \in 1..Len(Buckets) : \E k \in 1..Len(Buckets[b].value) :
       /\ Cardinality(SuccessIndexes(Buckets[b].value[k].responses)) = 2
       /\ Buckets[b].value[k].responses[1].schema = Some(ArraySchema(RefSchema(r_Order)))
       /\ Buckets[b].value[k].responses[2].schema = Some(RefSchema(r_Pet))
       /\ ReturnTypeOf(b, k) = <<"O","r","d","e","r","[","]">>

\* the component schemas of the document, as entries
RawSchemas == Get(Get(file.components).schemas)
\* the required-name list schema k of the document declares
RawRequired(k) ==
  IF RawSchemas[k].value.required = None THEN <<>> ELSE Get(RawSchemas[k].value.required)
\* the property names schema k of the document declares
RawPropertyNames(k) ==
  IF RawSchemas[k].value.properties = None THEN <<>>
  ELSE Keys(Get(RawSchemas[k].value.properties))

\* C9: in the emitted type declarations a property is declared required (no
\* '?') exactly when its name is in the owning schema's required-name list and
\* optional ('?') otherwise, whatever the required flag stored on the parsed
\* property, which parse() always leaves false.
C9_RequiredByMembership ==
  (pc = "generated" /\ DeclaredSchemas(file) > 0) =>
    /\ written[1].name = f_types
    /\ Len(ContentOf(f_types)) = Len(RawSchemas)
    /\ Len(ContentOf(f_index).schemas) = Len(RawSchemas)
    /\ \A k \in 1..Len(RawSchemas) :
         /\ ContentOf(f_types)[k].name = RawSchemas[k].key
         /\ Len(ContentOf(f_types)[k].properties) = Len(RawPropertyNames(k))
         /\ \A j \in 1..Len(RawPropertyNames(k)) :
              LET name == RawPropertyNames(k)[j]
                  line == ContentOf(f_types)[k].properties[j].line
                  member == \E r \in 1..Len(RawRequired(k)) : RawRequired(k)[r] = name
              IN  /\ SubSeq(line, 1, 2 + Len(name)) = <<" ", " ">> \o name
                  /\ line[3 + Len(name)] = IF member THEN ":" ELSE "?"
                  /\ ContentOf(f_index).schemas[k].properties[j].required = member
                  /\ Get(spec).schemas[k].properties[j].required = FALSE

C9_Witness ==
  /\ pc = "generated" /\ DeclaredSchemas(file) > 0
  /\ RawSchemas[1].key = n_Pet /\ RawRequired(1) = <<n_name>>
  /\ ContentOf(f_types)[1].properties[1].line =
       <<" "," ","i","d","?",":"," ","n","u","m","b","e","r",";">>
  /\ SubSeq(ContentOf(f_types)[1].properties[2].line, 1, 8) =
       <<" "," ","n","a","m","e",":"," ">>

\* C10: the emitted retryability predicate is true for every network error and
\* every timeout error, true for a response error whose status code is 500 or
\* more, and false for every other error: 503 is retryable, 404 is not, a
\* generic API error and a request-construction error never are.
C10_Retryable ==
  (IsSome(thrown) /\ IsSome(retryable)) =>
    LET e == Get(thrown)
        status == IF e.statusCode = None THEN -1 ELSE Get(e.statusCode)
    IN  /\ e.class \in {"NetworkError", "TimeoutError"} => Get(retryable) = TRUE
        /\ (e.class = "ApiResponseError" /\ status >= 500) => Get(retryable) = TRUE
        /\ (e.class = "ApiResponseError" /\ status < 500) => Get(retryable) = FALSE
        /\ e.class \in {"Error", "ApiError", "ApiRequestError"} => Get(retryable) = FALSE
        /\ e = [class |-> "ApiResponseError", statusCode |-> Some(503)] => Get(retryable) = TRUE
        /\ e = [class |-> "ApiResponseError", statusCode |-> Some(404)] => Get(retryable) = FALSE

C10_Witness ==
  /\ thrown = Some([class |-> "ApiResponseError", statusCode |-> Some(500)])
  /\ retryable = Some(TRUE)

\* the names of the files written so far
WrittenNames == {written[i].name : i \in 1..Len(written)}
Config == Get(context).config

C12_UnsupportedLanguageIsFatal ==
  (IsSome(options) /\ Get(options).language \notin validLanguages) =>
    /\ dirs = {}
    /\ written = <<>>
    /\ pc \notin {"done", "watching"}

\* the part of C12 the code keeps: the generate command rejects the language
\* before it reads the input, creates a directory or writes an artifact
C12_GenerateCommandRejects ==
  (IsSome(options) /\ Get(options).command = "generate"
     /\ Get(options).language \notin validLanguages /\ pc # "cli") =>
    /\ pc = "failed"
    /\ error \in {"Invalid language", "Input file not found"}
    /\ dirs = {} /\ written = <<>> /\ runs = <<>>

\* the writeFile calls of run r, in order, as (name, content) pairs
ArtifactsOf(r) ==
  LET ByRun(w) == w.run = r
      calls == SelectSeq(written, ByRun)
  IN  [k \in 1..Len(calls) |-> [name |-> calls[k].name, content |-> calls[k].content]]
Notices == {i \in 1..Len(console) : SubSeq(console[i].text, 1, 5) = "Note:"}
RunsPastGetGenerator ==
  {r \in 1..Len(runs) : runs[r].phase \in {"writing", "awaiting", "done"} \/ runs[r].k > 0}

WatchRegistered ==
  /\ IsSome(options) /\ Get(options).command = "watch"
  /\ Len(runs) >= 1 /\ runs[1].phase = "done"
FailedRegenerations == {r \in 2..Len(runs) : runs[r].phase = "failed"}
ErrorReports == {i \in 1..Len(console) : console[i].text = "Error regenerating:"}

\* C14: in a watch session an error thrown by a change-triggered regeneration
\* is caught and reported and does not end the session: whatever regenerations
\* failed, the listener stays registered and the process stays in the watch
\* loop (so the next change event is dispatched to a new regeneration), every
\* failure is reported once, and the first run's error is never left set.
C14_WatchSurvivesFailures ==
  WatchRegistered =>
    /\ watching
    /\ pc = "watching"
    /\ error = ""
    /\ Cardinality(ErrorReports) = Cardinality(FailedRegenerations)
    /\ Len(runs) <= 1 + events

C14_Witness ==
  /\ WatchRegistered
  /\ \E r, q \in 2..Len(runs) :
       /\ r < q
       /\ runs[r].phase = "failed" /\ runs[r].k > 0
       /\ runs[q].phase = "done"
  /\ watching

InProgress == {r \in 1..Len(runs) : runs[r].phase \in {"start", "writing", "awaiting"}}

\* C15: in a watch session at most one regeneration is in progress at any time,
\* also when a change event arrives while a regeneration has not finished (the
\* event waits for it); the artifact writes of two regenerations never
\* interleave: the writes of each run are one contiguous block, in run order.
C15_OneRegenerationAtATime ==
  /\ Cardinality(InProgress) <= 1
  /\ \A i, j \in 1..Len(written) : i < j => written[i].run <= written[j].run
  /\ \A r \in InProgress : \A q \in 1..Len(runs) : q > r => runs[q].k = 0

\* a second change event is queued while a regeneration is between two writes:
\* it is not dispatched, and the writes so far are the runs' blocks in order
C15_Witness ==
  /\ Len(runs) = 2 /\ events = 2
  /\ runs[2].phase = "writing" /\ runs[2].k = 2
  /\ runs[2].file # file
  /\ written[Len(written)].run = 2 /\ written[1].run = 1

\* the artifacts a pass builds from scratch from the document doc
FreshArtifacts(doc) == generate(buildContext(Get(context).config, parse(doc)))

\* C16 as stated: every generation pass, each change-triggered regeneration
\* included, builds its spec and context from the input file as it is when the
\* pass starts: every artifact a pass writes is the artifact of that document.
C16_FreshSpecPerPass ==
  \A i \in 1..Len(written) :
    \E k \in 1..Len(FreshArtifacts(runs[written[i].run].file)) :
      /\ FreshArtifacts(runs[written[i].run].file)[k].name = written[i].name
      /\ FreshArtifacts(runs[written[i].run].file)[k].content = written[i].content

\* what the code does instead: every pass of a session writes the artifacts of
\* the document the command parsed when it started
C16_FirstParseOnly ==
  \A i \in 1..Len(written) :
    \E k \in 1..Len(FreshArtifacts(runs[1].file)) :
      /\ FreshArtifacts(runs[1].file)[k].name = written[i].name
      /\ FreshArtifacts(runs[1].file)[k].content = written[i].content

\* the input of the command is invalid: missing, unreadable, or without marker
InvalidInput == fileStatus # "ok" \/ ~HasVersionMarker(file)

\* C17: when the input file is missing, unreadable or lacks the version marker,
\* the generate command ends with an error handed to its caller and attempts no
\* output: no run of the engine starts, no directory is created and no artifact
\* is written.
C17_InvalidInputNoOutput ==
  (IsSome(options) /\ Get(options).command = "generate" /\ InvalidInput /\ pc # "cli") =>
    /\ pc = "failed"
    /\ error # ""
    /\ parserSpec = None /\ spec = None /\ context = None
    /\ runs = <<>>
    /\ dirs = {}
    /\ written = <<>>
    /\ fileStatus = "missing" => error = "Input file not found"

C17_Witness ==
  /\ IsSome(options) /\ Get(options).command = "generate"
  /\ Get(options).language = l_typescript
  /\ fileStatus = "ok" /\ ~HasVersionMarker(file)
  /\ pc = "failed"
  /\ error = InvalidSpecification
  /\ dirs = {} /\ written = <<>>

C19_SubClientPerTag ==
  pc = "generated" =>
    LET text == ContentOf(f_index).text
    IN  /\ Len(text.subClients) = Len(Buckets)
        /\ Len(text.fields) = Len(Buckets)
        /\ \A b \in 1..Len(Buckets) :
             /\ text.subClients[b].typeName = toPascalCase(Buckets[b].key) \o s_Client
             /\ text.fields[b].name = toCamelCase(Buckets[b].key)
             /\ text.fields[b].type = text.subClients[b].typeName
             /\ Len(text.subClients[b].methods) = Len(Buckets[b].value)
             /\ \A k \in 1..Len(Buckets[b].value) :
                  text.subClients[b].methods[k] = toCamelCase(Buckets[b].value[k].operationId)
        /\ Len(Get(spec).endpoints) = 1 =>
             (Len(text.subClients) = 1 /\ Len(text.subClients[1].methods) = 1)

\* what the code renders: the template appends "Client" to a className that
\* already ends in it; the counts, the field and method names are as claimed
C19_DoubledSuffix ==
  pc = "generated" =>
    LET text == ContentOf(f_index).text
    IN  /\ Len(text.subClients) = Len(Buckets)
        /\ \A b \in 1..Len(Buckets) :
             /\ text.subClients[b].typeName =
                  toPascalCase(Buckets[b].key) \o s_Client \o s_Client
             /\ text.fields[b].name = toCamelCase(Buckets[b].key)
             /\ text.fields[b].type = text.subClients[b].typeName
             /\ Len(text.subClients[b].methods) = Len(Buckets[b].value)
             /\ \A k \in 1..Len(Buckets[b].value) :
                  text.subClients[b].methods[k] = toCamelCase(Buckets[b].value[k].operationId)

\* the fixed order of the artifacts
ArtifactOrder == <<f_types, f_index, f_errors, f_params, f_examples, f_package, f_tsconfig>>
Position(name) == CHOOSE p \in 1..Len(ArtifactOrder) : ArtifactOrder[p] = name

\* C20: a run writes its artifacts one after another in the fixed order types
\* file, main client, error taxonomy, parameter bundle, examples, package
\* manifest, build configuration (those it writes at all), with no transaction:
\* when producing the (k+1)-th artifact fails the run ends at once, the error of
\* a command's own run reaches the command, the k artifacts written before stay
\* as they were written, and the run writes nothing after the failure.
C20_OrderedNoRollback ==
  runs # <<>> =>
    LET artifacts == generate(Get(context))
    IN  \A r \in 1..Len(runs) :
          LET done == ArtifactsOf(r)
          IN  /\ Len(done) = runs[r].k
              /\ \A i, j \in 1..Len(done) :
                   i < j => Position(done[i].name) < Position(done[j].name)
              /\ done = SubSeq(artifacts, 1, runs[r].k)
              /\ runs[r].phase \in {"awaiting", "done"} => done = artifacts
              /\ (runs[r].phase = "failed" /\ r = 1) => (pc = "failed" /\ error = "EIO")

\* the first run failed while writing its third artifact: the first two stay
C20_Witness ==
  /\ pc = "failed" /\ error = "EIO"
  /\ Len(runs) = 1 /\ runs[1].phase = "failed" /\ runs[1].k = 2
  /\ Len(written) = 2
  /\ written[1].name = f_types /\ written[2].name = f_index
  /\ Get(context).config.includeErrorHandling


\* the label and the TypeScript type of the property or parameter under test
Label == Get(outcome).label
TsType == Get(Get(outcome).tsType)

\* the type table as the specification lists it
ListedTypes ==
  <<Entry(s_string, s_string), Entry(s_integer, s_number), Entry(s_number, s_number),
    Entry(s_boolean, s_boolean), Entry(s_array, s_anyArray), Entry(s_object, s_Record),
    Entry(s_file, s_Blob), Entry(s_date, s_string), Entry(s_dateTime, s_string),
    Entry(s_email, s_string), Entry(s_uri, s_string)>>

\* C21 as stated: a label of the table maps to the table's type (email and uri
\* to string among them), every other label, in any letter case, is returned
\* unchanged, and a nullable property's type is unioned with null. It fails:
\* mapType has no email and no uri entry, and it looks the label up in lower
\* case, so that a schema named File, Date or String is taken for the primitive.
C21_TypeTable ==
  pc = "mapped" =>
    LET listed == Lookup(ListedTypes, Label)
        base == IF listed # None THEN Get(listed) ELSE Label
    IN  TsType = IF Get(outcome).nullable = Some(TRUE)
                 THEN base \o <<" ","|"," ","n","u","l","l">> ELSE base

\* what does hold of mapType: the nine labels of its own table are mapped as
\* the specification says, and null is unioned exactly for nullable properties
C21_NineLabels ==
  pc = "mapped" =>
    /\ (Label \in {s_string, s_integer, s_number, s_boolean, s_array, s_object, s_file,
                   s_date, s_dateTime} /\ Get(outcome).nullable # Some(TRUE))
         => TsType = Get(Lookup(ListedTypes, Label))
    /\ Label \in {s_email, s_uri} => SubSeq(TsType, 1, Len(Label)) = Label
    /\ (Get(outcome).nullable = Some(TRUE))
         <=> (Len(TsType) >= 7 /\ SubSeq(TsType, Len(TsType) - 6, Len(TsType))
                                   = <<" ","|"," ","n","u","l","l">>)

RECURSIVE ClaimedLabel(_)
\* the label C22 states for a schema node, every array suffixed
ClaimedLabel(schema) ==
  IF schema = None THEN s_any
  ELSE IF HasValue(Get(schema).ref) THEN AfterLastSlash(Get(Get(schema).ref))
  ELSE IF Get(schema).type = Some(s_array) THEN ClaimedLabel(Get(schema).items) \o <<"[", "]">>
  ELSE IF HasValue(Get(schema).type) THEN Get(Get(schema).type)
  ELSE s_any

RECURSIVE ResolvedLabel(_)
\* the same, with the suffix only for an array that declares its items
ResolvedLabel(schema) ==
  IF schema = None THEN s_any
  ELSE IF HasValue(Get(schema).ref) THEN AfterLastSlash(Get(Get(schema).ref))
  ELSE IF Get(schema).type = Some(s_array) /\ Get(schema).items # None
  THEN ResolvedLabel(Get(schema).items) \o <<"[", "]">>
  ELSE IF HasValue(Get(schema).type) THEN Get(Get(schema).type)
  ELSE s_any

\* the node is an array without items, or nests one
RECURSIVE HasBareArray(_)
HasBareArray(schema) ==
  /\ schema # None
  /\ ~HasValue(Get(schema).ref)
  /\ Get(schema).type = Some(s_array)
  /\ (Get(schema).items = None \/ HasBareArray(Get(schema).items))

\* C22 as stated: every array resolves to the label of its element type followed
\* by "[]". It fails for an array that declares no items: its label is "array".
C22_EveryArraySuffixed ==
  pc \in {"labelled", "mapped"} => Label = ClaimedLabel(Get(subject).schema)

\* C22 (amended): a (non-empty) reference resolves to the last path segment of
\* its reference string; an array that declares its items resolves to the label
\* of the items followed by "[]", nested arrays nesting the suffix; an array
\* without items resolves to "array", its declared type name; any other node
\* resolves to its declared type name; and the label is "any" when no schema is
\* present or the node declares neither a reference nor a type.
C22_TypeLabel ==
  pc \in {"labelled", "mapped"} =>
    LET schema == Get(subject).schema
    IN  /\ Label = ResolvedLabel(schema)
        /\ schema = None => Label = s_any
        /\ (schema # None /\ ~HasValue(Get(schema).ref) /\ ~HasValue(Get(schema).type))
             => Label = s_any
        /\ (schema # None /\ ~HasValue(Get(schema).ref) /\ Get(schema).type = Some(s_array)
              /\ Get(schema).items = None) => Label = s_array
        /\ Label = s_any =>
             \/ schema = None
             \/ ~HasValue(Get(schema).ref) /\ ~HasValue(Get(schema).type)
        /\ HasBareArray(schema) <=> Label # ClaimedLabel(schema)

\* a doubly nested array of references has been labelled Pet[][]
C22_Witness ==
  /\ pc = "labelled"
  /\ Get(subject).schema = Some(ArraySchema(ArraySchema(RefSchema(r_Pet))))
  /\ Label = <<"P","e","t","[","]","[","]">>

RECURSIVE JoinWords(_, _, _)
\* the characters of s from index i on with every non-alphanumeric character
\* removed and the character after a removed run in upper case
JoinWords(s, i, boundary) ==
  IF i > Len(s) THEN <<>>
  ELSE IF ~IsAlnum(s[i]) THEN JoinWords(s, i + 1, TRUE)
  ELSE <<IF boundary THEN toUpperChar(s[i]) ELSE s[i]>> \o JoinWords(s, i + 1, FALSE)

FirstUpper(s) == IF s = <<>> THEN s ELSE <<toUpperChar(s[1])>> \o Tail(s)
FirstLower(s) == IF s = <<>> THEN s ELSE <<toLowerChar(s[1])>> \o Tail(s)

\* C23 as stated: every '-', '_' and run of non-alphanumeric characters is
\* removed and the character after it is in upper case; the result then has its
\* first character in upper case (PascalCase) or lower case (camelCase). It
\* fails: a run at the end of the string stays in the result, and camelCase
\* lowers the first character before the last replace, which can raise it again.
C23_WordBoundaries ==
  (pc = "naming" /\ outcome # None) =>
    /\ Get(outcome).pascal # None =>
         Get(Get(outcome).pascal) = FirstUpper(JoinWords(Get(subject), 1, FALSE))
    /\ Get(outcome).camel # None =>
         Get(Get(outcome).camel) = FirstLower(JoinWords(Get(subject), 1, FALSE))

\* what does hold: the transforms are as stated for a string that ends with a
\* letter or digit and, for camelCase, begins with one
C23_InteriorBoundaries ==
  (pc = "naming" /\ outcome # None /\ Get(subject) # <<>>
     /\ IsAlnum(Get(subject)[Len(Get(subject))])) =>
    /\ Get(outcome).pascal # None =>
         Get(Get(outcome).pascal) = FirstUpper(JoinWords(Get(subject), 1, FALSE))
    /\ (Get(outcome).camel # None /\ IsAlnum(Get(subject)[1])) =>
         Get(Get(outcome).camel) = FirstLower(JoinWords(Get(subject), 1, FALSE))

\* the seven verbs in the order the specification fixes
VerbOrder == <<s_get, s_post, s_put, s_delete, s_patch, s_options, s_head>>
\* the position of the path item endpoint e was declared under, 0 if there is none
PathIndex(e) == IndexOf(e.path, Keys(Get(file.paths)))
\* the position of the endpoint's verb in the fixed order, 0 if it is no such verb
VerbIndex(e) == IndexOf(toLowerCase(e.method), VerbOrder)

\* the endpoints are exactly the present operations of the seven verbs, ordered
\* by declared path and then by the fixed verb order
EndpointsInDeclaredOrder ==
  LET endpoints == Get(spec).endpoints
  IN  /\ Len(endpoints) = Cardinality(PresentOperations(file))
      /\ \A i \in 1..Len(endpoints) :
           /\ PathIndex(endpoints[i]) > 0
           /\ VerbIndex(endpoints[i]) > 0
           /\ endpoints[i].method = toUpperCase(VerbOrder[VerbIndex(endpoints[i])])
           /\ <<PathIndex(endpoints[i]), VerbOrder[VerbIndex(endpoints[i])]>>
                \in PresentOperations(file)
      /\ \A i, j \in 1..Len(endpoints) :
           i < j => \/ PathIndex(endpoints[i]) < PathIndex(endpoints[j])
                    \/ /\ PathIndex(endpoints[i]) = PathIndex(endpoints[j])
                       /\ VerbIndex(endpoints[i]) < VerbIndex(endpoints[j])

\* C24 as stated: the endpoints follow the declared paths and the fixed verb
\* order, only the seven verbs produce one, and every path is non-empty. The
\* last part fails for a paths object with the key "".
C24_PathNeverEmpty ==
  Parsed =>
    /\ EndpointsInDeclaredOrder
    /\ \A i \in 1..Len(Get(spec).endpoints) : Get(spec).endpoints[i].path # <<>>

\* C24 (amended): parse() emits endpoints in the order of the declared path
\* templates and, within one path, in the order get, post, put, delete, patch,
\* options, head; every endpoint's method is the upper-case form of one of these
\* verbs and its path is the key it was declared under, verbatim (non-empty
\* whenever the keys of the paths object are); other keys of a path item
\* produce no endpoint.
C24_EndpointOrder ==
  Parsed =>
    /\ EndpointsInDeclaredOrder
    /\ (\A k \in 1..Len(OrElseObj(file.paths, <<>>)) : Get(file.paths)[k].key # <<>>)
         => \A i \in 1..Len(Get(spec).endpoints) : Get(spec).endpoints[i].path # <<>>

\* two paths, the first declaring head, trace and get in this order: GET comes
\* before HEAD, trace yields nothing, the second path's endpoints follow
C24_Witness ==
  /\ Parsed
  /\ file.paths # None
  /\ Len(Get(file.paths)) = 2
  /\ Keys(Get(file.paths)[1].value) = <<s_head, s_trace, s_get>>
  /\ Len(Get(spec).endpoints) >= 3
  /\ Get(spec).endpoints[1].method = <<"G","E","T">>
  /\ Get(spec).endpoints[2].method = <<"H","E","A","D">>
  /\ Get(spec).endpoints[3].path = Get(file.paths)[2].key

\* the schema and the example that the first declared content type carries
FirstDeclared(content) ==
  IF content = None \/ content = Some(<<>>) THEN [schema |-> None, example |-> None]
  ELSE Get(content)[1].value
\* the content-type strings that a content object declares, in key order
DeclaredTypes(content) ==
  IF content = None THEN <<>> ELSE [k \in 1..Len(Get(content)) |-> Get(content)[k].key]

\* C25: the schema and the example of a parsed request body or response are
\* those of the first declared content type, also when that type has no schema
\* and a later one has; a request body keeps every declared content type, in
\* order, as a string; a response keeps the key it was declared under, such as
\* 'default', as its status code.
C25_FirstContentType ==
  Parsed =>
    \A i \in 1..Len(Get(spec).endpoints) :
      LET endpoint == Get(spec).endpoints[i]
          operation == SourceOperation(endpoint)
      IN  /\ operation.requestBody = None <=> endpoint.requestBody = None
          /\ operation.requestBody # None =>
               LET declared == Get(operation.requestBody).content
                   body == Get(endpoint.requestBody)
               IN  /\ body.schema = FirstDeclared(declared).schema
                   /\ body.example = FirstDeclared(declared).example
                   /\ body.contentTypes = DeclaredTypes(declared)
          /\ Len(endpoint.responses) = Len(OrElseObj(operation.responses, <<>>))
          /\ \A k \in 1..Len(endpoint.responses) :
               LET declared == Get(operation.responses)[k]
               IN  /\ endpoint.responses[k].statusCode = declared.key
                   /\ endpoint.responses[k].schema = FirstDeclared(declared.value.content).schema
                   /\ endpoint.responses[k].example = FirstDeclared(declared.value.content).example

\* a request body and a 'default' response that declare application/xml without
\* a schema before application/json with one have been parsed: both have the
\* first type's example and no schema
C25_Witness ==
  /\ Parsed
  /\ Len(Get(spec).endpoints) = 1
  /\ LET endpoint == Get(spec).endpoints[1]
         operation == SourceOperation(endpoint)
     IN  /\ operation.requestBody # None
         /\ Get(operation.requestBody).content = Some(TwoTypesExampleFirst)
         /\ Get(endpoint.requestBody).contentTypes = <<m_xml, m_json>>
         /\ Get(endpoint.requestBody).schema = None
         /\ Get(endpoint.requestBody).example = Some(i_desc)
         /\ Len(endpoint.responses) = 2
         /\ endpoint.responses[2].statusCode = <<"d","e","f","a","u","l","t">>
         /\ endpoint.responses[2].schema = None
         /\ endpoint.responses[2].example = Some(i_desc)

\* the 'Regeneration complete!' lines, which the command's callback prints
CallbackReports == {i \in 1..Len(console) : console[i].text = "Regeneration complete!"}

\* C26: in a watch session the callback of engine.watch() is called exactly
\* once by every change handler whose regeneration completed without error,
\* after all artifacts of that regeneration are written, and never by a handler
\* whose regeneration failed nor for the command's own first run; a callback
\* that throws is caught and reported, and the watcher stays registered.
C26_CallbackAfterRegeneration ==
  runs # <<>> =>
    LET artifacts == generate(Get(context))
    IN  /\ runs[1].called = 0
        /\ \A r \in 2..Len(runs) :
             /\ runs[r].called \in {0, 1}
             /\ runs[r].called = 1 =>
                  /\ runs[r].k = Len(artifacts)
                  /\ ArtifactsOf(r) = artifacts
                  /\ runs[r].phase \in {"done", "failed"}
             /\ runs[r].phase = "done" => runs[r].called = 1
             /\ (runs[r].phase = "failed" /\ runs[r].k < Len(artifacts)) => runs[r].called = 0
             /\ (runs[r].phase = "failed" /\ runs[r].called = 1) =>
                  /\ watching
                  /\ pc = "watching"
                  /\ error = ""
                  /\ ErrorReports # {}
        /\ Cardinality(CallbackReports)
             = Cardinality({r \in 2..Len(runs) : runs[r].phase = "done"})

\* the callback threw in the first change handler, after all artifacts were
\* written; the second change was dispatched all the same, its regeneration
\* completed and its callback returned; a third handler would be refused only
\* by the bound on the change events
C26_Witness ==
  /\ Len(runs) = 3
  /\ runs[2].phase = "failed" /\ runs[2].called = 1
  /\ runs[2].k = Len(ArtifactsOf(2)) /\ runs[2].k > 0
  /\ runs[3].phase = "done" /\ runs[3].called = 1
  /\ Cardinality(CallbackReports) = 1
  /\ Cardinality(ErrorReports) = 1
  /\ watching
====
